---- MODULE Spec2Model ----
(***************************************************************************)
(* Model of the MedLit agent's PubMed retrieval pipeline:                  *)
(*   MedLitAgent.ask / _run_agent      (src/medlit/agent/medlit_agent.py)  *)
(*   PubMedClient session and _request (src/medlit/pubmed/client.py)       *)
(*   search_pubmed / fetch_articles    (src/medlit/pubmed/search.py,       *)
(*                                      src/medlit/pubmed/fetch.py)        *)
(*   RateLimiter                       (src/medlit/utils/rate_limiter.py)  *)
(*   SearchQuery.build_query           (src/medlit/models/query.py)        *)
(*                                                                         *)
(* Program strings are sequences of symbols (<<>> is the empty string);    *)
(* an optional value is <<>> (None) or <<v>>.  Time advances in ticks of   *)
(* 1/PUBMED_RATE_LIMIT second, so the bucket refills one token per tick.   *)
(***************************************************************************)
EXTENDS Integers, Sequences, FiniteSets, TLC

----------------------------------------------------------------------------
(* Bounds of the model *)

NumTasks == 2
MaxIds == 2
MaxTerms == 2
MaxCalls == 2
MaxDate == 3
NumCallers == 3
MaxAcquire == 3
DefaultTtl == 2
MaxNow == 4

Tasks == 1..NumTasks

(* Program constants *)

PUBMED_RATE_LIMIT == 3
MEDICAL_DISCLAIMER == <<"Disclaimer">>

TicksPerSecond == PUBMED_RATE_LIMIT

Min(a, b) == IF a < b THEN a ELSE b
Max(a, b) == IF a > b THEN a ELSE b

RECURSIVE Pow2(_)
Pow2(n) == IF n = 0 THEN 1 ELSE 2 * Pow2(n - 1)

None == <<>>
Some(v) == <<v>>

(* The outcome of a call: a value returned or an exception raised *)
Returned(v) == [raised |-> FALSE, value |-> v]
Raised(e) == [raised |-> TRUE, exc |-> e]

(* All sequences over S of length at most n *)
SeqsUpTo(S, n) == UNION {[1..k -> S] : k \in 0..n}

----------------------------------------------------------------------------
(* Query model: src/medlit/models/query.py *)

RECURSIVE Join(_, _)
Join(parts, sep) ==
    IF parts = <<>> THEN <<>>
    ELSE IF Len(parts) = 1 THEN parts[1]
    ELSE parts[1] \o sep \o Join(Tail(parts), sep)

ToQueryFilters(f) ==
    LET sp == IF f.species # <<>> THEN << f.species \o <<"[filter]">> >> ELSE <<>>
        la == IF f.language # <<>> THEN << f.language \o <<"[la]">> >> ELSE <<>>
        pt == [i \in 1..Len(f.article_types) |-> f.article_types[i] \o <<"[pt]">>]
    IN  sp \o la \o pt

(* MeSH terms taking precedence over the pre-formatted query *)
TopicClauseMeshFirst(q) ==
    IF q.mesh_terms # <<>>
    THEN << <<"(">>
            \o Join([i \in 1..Len(q.mesh_terms) |-> q.mesh_terms[i] \o <<"[MeSH]">>],
                    <<" OR ">>)
            \o <<")">> >>
    ELSE IF q.pubmed_query # <<>>
    THEN << <<"(">> \o q.pubmed_query \o <<")">> >>
    ELSE IF q.search_terms # <<>>
    THEN << <<"(">> \o Join(q.search_terms, <<" AND ">>) \o <<")">> >>
    ELSE <<>>

TopicClause(q) ==
    IF q.pubmed_query # <<>>
    THEN << <<"(">> \o q.pubmed_query \o <<")">> >>
    ELSE IF q.mesh_terms # <<>>
    THEN << <<"(">>
            \o Join([i \in 1..Len(q.mesh_terms) |-> q.mesh_terms[i] \o <<"[MeSH]">>],
                    <<" OR ">>)
            \o <<")">> >>
    ELSE IF q.search_terms # <<>>
    THEN << <<"(">> \o Join(q.search_terms, <<" AND ">>) \o <<")">> >>
    ELSE <<>>

BuildQuery(q) == Join(TopicClause(q) \o ToQueryFilters(q.filters), <<" AND ">>)

DefaultFilters == [species |-> <<"humans">>, language |-> <<"english">>,
                   article_types |-> <<>>]

NewSearchQuery(question) ==
    [original_question |-> question, search_terms |-> <<>>, mesh_terms |-> <<>>,
     pubmed_query |-> <<>>, filters |-> DefaultFilters]

----------------------------------------------------------------------------
(* Wire payloads and the response parser: src/medlit/pubmed/parser.py *)

Pmids == {"p1", "p2"}
IdTexts == Pmids \cup {""}

(* An esearch document: text that is or is not well-formed XML, with or    *)
(* without an IdList element, whose Id children have the texts ids.  The  *)
(* text of an HTTP response is decoded text, hence encodable.             *)
SearchDocument(wf, il, s) ==
    [encodable |-> TRUE, wellformed |-> wf, idlist |-> il, ids |-> s]

SearchPayloads ==
    {SearchDocument(FALSE, FALSE, <<>>), SearchDocument(TRUE, FALSE, <<>>)}
    \cup {SearchDocument(TRUE, TRUE, s) :
             s \in {x \in SeqsUpTo(IdTexts, MaxIds) :
                      \A i, j \in 1..Len(x) : (i # j /\ x[i] # "") => x[i] # x[j]}}

(* A PubmedArticle element of an efetch document:                          *)
(*   medline   it has a MedlineCitation                                    *)
(*   pmid      text of its PMID ("" when the element or its text is absent)*)
(*   article   it has an Article element                                   *)
(*   title     text content of ArticleTitle (<<>> when absent or empty)    *)
(*   forename  "text", "absent", or "empty" (a ForeName element without    *)
(*             text, for which Author(first_name=None) fails validation)   *)
(*   pubtypes  texts of the PublicationType elements                       *)
(*   authors   LastName text and Initials text of each Author element      *)
WireRecord(id) ==
    [medline |-> TRUE, pmid |-> id, article |-> TRUE, title |-> <<"Title">>,
     forename |-> "text", pubtypes |-> <<>>, authors |-> <<>>]

(* Author elements: LastName and Initials texts *)
Smith == [last_name |-> "Smith", initials |-> "J"]
Jones == [last_name |-> "Jones", initials |-> ""]

(* An efetch document *)
FetchDocument(wf, recs) == [encodable |-> TRUE, wellformed |-> wf, records |-> recs]

FetchPayloads ==
    {FetchDocument(FALSE, <<>>)}
    \cup {FetchDocument(TRUE, [i \in 1..Len(x) |-> WireRecord(x[i])]) :
             x \in {y \in SeqsUpTo(IdTexts, MaxIds) :
                      \A i, j \in 1..Len(y) : (i # j /\ y[i] # "") => y[i] # y[j]}}

(* ET.fromstring: the tree, ET.ParseError for text that is not well-formed *)
(* XML, or UnicodeEncodeError for a str that cannot be encoded as UTF-8    *)
(* (one holding a lone surrogate): parser.py:23, 49                        *)
FromString(p) ==
    IF ~p.encodable THEN "UnicodeEncodeError"
    ELSE IF ~p.wellformed THEN "ParseError"
    ELSE "tree"

(* A parser without its except clause *)
ParserCatchesNothing(e) == FALSE

(* `except ET.ParseError`: parser.py:32, 60 *)
ParserCatches(e) == e = "ParseError"

(* parse_search_results: parser.py:13-34 *)
ParseSearchResultsOutcome(p) ==
    IF FromString(p) = "tree"
    THEN (IF ~p.idlist THEN Returned(<<>>)
          ELSE Returned(SelectSeq(p.ids, LAMBDA x : x # "")))
    ELSE IF ParserCatches(FromString(p))
    THEN Returned(<<>>)
    ELSE Raised(FromString(p))

(* parse_search_results on the text of a response *)
ParseSearchResults(p) == ParseSearchResultsOutcome(p).value

(* _parse_authors: parser.py:166-192; an Author element without LastName   *)
(* text is skipped                                                         *)
ParseAuthors(r) == SelectSeq(r.authors, LAMBDA a : a.last_name # "")

(* A priority order that puts Review first *)
ReviewFirstTypes ==
    <<"Review", "Meta-Analysis", "Systematic Review", "Randomized Controlled Trial",
      "Clinical Trial", "Guideline", "Practice Guideline">>

(* _parse_article_type: parser.py:276-304 *)
PriorityTypes ==
    <<"Meta-Analysis", "Systematic Review", "Randomized Controlled Trial",
      "Clinical Trial", "Review", "Guideline", "Practice Guideline">>

ParseArticleType(r) ==
    LET found == SelectSeq(r.pubtypes, LAMBDA x : x # "")
        hits == {i \in 1..Len(PriorityTypes) :
                    \E j \in 1..Len(found) : found[j] = PriorityTypes[i]}
    IN  IF hits # {}
        THEN Some(PriorityTypes[CHOOSE i \in hits : \A k \in hits : i <= k])
        ELSE IF found # <<>> THEN Some(found[1]) ELSE None

(* _parse_single_article: parser.py:66-139.  The Article, None, or the     *)
(* exception of a failed Author construction.                              *)
ParseSingleArticle(r) ==
    IF ~r.medline THEN Returned(None)
    ELSE IF r.pmid = "" THEN Returned(None)
    ELSE IF ~r.article THEN Returned(None)
    ELSE IF r.forename = "empty" /\ ParseAuthors(r) # <<>>
    THEN Raised("ValidationError")
    ELSE Returned(Some([pmid |-> r.pmid, title |-> r.title,
                        article_type |-> ParseArticleType(r),
                        authors |-> ParseAuthors(r)]))

(* A record loop without the inner try *)
RecordCatchesNothing(e) == FALSE

(* `except Exception` around one record: parser.py:52-58 *)
RecordCatches(e) == TRUE

(* The loop over the PubmedArticle elements: parser.py:51-58 *)
RECURSIVE ParseRecords(_, _)
ParseRecords(recs, acc) ==
    IF recs = <<>> THEN Returned(acc)
    ELSE LET one == ParseSingleArticle(Head(recs))
         IN  IF one.raised
             THEN (IF RecordCatches(one.exc) THEN ParseRecords(Tail(recs), acc)
                   ELSE one)
             ELSE IF one.value # None
             THEN ParseRecords(Tail(recs), Append(acc, one.value[1]))
             ELSE ParseRecords(Tail(recs), acc)

(* parse_articles: parser.py:37-63 *)
ParseArticlesOutcome(p) ==
    IF FromString(p) = "tree" THEN ParseRecords(p.records, <<>>)
    ELSE IF ParserCatches(FromString(p)) THEN Returned(<<>>)
    ELSE Raised(FromString(p))

(* parse_articles on the text of a response *)
ParseArticles(p) == ParseArticlesOutcome(p).value

----------------------------------------------------------------------------
(* Rate limiter: src/medlit/utils/rate_limiter.py *)

Burst == PUBMED_RATE_LIMIT
RatePerTick == PUBMED_RATE_LIMIT \div TicksPerSecond

Refill(tok, el) == Min(Burst, tok + el * RatePerTick)

WaitTicks(needed) == (needed * TicksPerSecond) \div PUBMED_RATE_LIMIT

(* Retry policy of _request: src/medlit/pubmed/client.py:77-80 *)

(* One attempt more than the policy allows *)
StopAfterFourAttempts == 3 + 1

StopAfterAttempt == 3

WaitExponential(n) == Max(1, Min(Pow2(n - 1), 10))

----------------------------------------------------------------------------
(* LLM completions (the LLM itself is an external service) *)

Question(t) == <<"question", ToString(t)>>

QueryGenOutcomes ==
    {[kind |-> "prompt_error"], [kind |-> "llm_error"], [kind |-> "no_json"],
     [kind |-> "bad_json"]}
    \cup {[kind |-> "json", search_terms |-> st, mesh_terms |-> <<>>, pubmed_query |-> pq] :
            st \in {<<>>, << <<"aspirin">> >>},
            pq \in {<<>>, <<"aspirin[tiab]">>}}

SynthOutcomes ==
    {[kind |-> "llm_error"],
     [kind |-> "no_json", text |-> <<"raw text">>],
     [kind |-> "bad_json", text |-> <<"{raw text}">>]}
    \cup {[kind |-> "json", text |-> <<"{json}">>, summary |-> Some(<<"summary">>),
           evidence_quality |-> eq] :
            eq \in {None, Some("high"), Some("low"), Some("excellent")}}

EvidenceQualityValues == {"high", "moderate", "low", "unknown"}

(* Queries handed to a client by a direct caller *)
DirectQueries ==
    {[original_question |-> <<"direct">>, search_terms |-> st, mesh_terms |-> <<>>,
      pubmed_query |-> <<>>,
      filters |-> [species |-> sp, language |-> <<>>, article_types |-> <<>>]] :
        st \in {<<>>, << <<"aspirin">> >>}, sp \in {<<>>, <<"humans">>}}

----------------------------------------------------------------------------
VARIABLES
    task,           \* per task (one call of ask, or one direct client session):
                    \*   pc          control point
                    \*   kind        "ask" (MedLitAgent.ask) or "direct" (client used directly)
                    \*   query       the SearchQuery
                    \*   endpoint    endpoint of the _request in progress
                    \*   attempt     tenacity attempt number of the _request in progress
                    \*   sleep       ticks left of the task's asyncio.sleep
                    \*   tokens      RateLimiter.tokens of the task's client
                    \*   elapsed     ticks since RateLimiter.last_update (saturating)
                    \*   lockHeld    RateLimiter._lock is held
                    \*   hasClient   PubMedClient._client is not None
                    \*   openConns   connections created and not yet closed
                    \*   pmids       result of search
                    \*   articles    result of fetch
                    \*   excp        exception propagating out of the session body
                    \*   resp        AgentResponse built, if any
                    \*   outcome     "none", "returned" or "raised"
                    \*   searchGets  GETs sent to esearch
                    \*   fetchGets   GETs sent to efetch
                    \*   grants      successful token acquisitions
                    \*   reqFails    failed attempts of the _request in progress
                    \*   searchDone  search has returned
                    \*   fetchDone   the fetch request has returned and was parsed
                    \*   synthCalls  synthesis LLM calls made
                    \*   raised      an exception was raised inside the run
    metricsCurrent, \* MetricsTracker._current_metrics
    metricsHistory, \* MetricsTracker._history
    sharedBudget,   \* reference bucket drained by every GET of every client
    bq,             \* build_query: the SearchQuery under test
    bqOut,          \* build_query: the result of the latest call, if any
    bqCalls,        \* build_query: calls made on bq
    arg,            \* a call of a function on its own: the function and its input
    ret,            \* that call's outcome, once it has returned or raised
    limiter,        \* one RateLimiter shared by concurrent callers
    caller,         \* per caller of that limiter: its call of acquire
    cache           \* one InMemoryCache and the clock it reads

agentVars == <<metricsCurrent, metricsHistory>>
queryVars == <<bq, bqOut, bqCalls, arg, ret>>
utilVars == <<limiter, caller, cache>>
vars == <<task, metricsCurrent, metricsHistory, sharedBudget, bq, bqOut, bqCalls, arg, ret,
          limiter, caller, cache>>

NewTask ==
    [pc |-> "idle", kind |-> "none", query |-> NewSearchQuery(<<>>),
     endpoint |-> "none", attempt |-> 0, sleep |-> 0,
     tokens |-> Burst, elapsed |-> 0, lockHeld |-> FALSE,
     hasClient |-> FALSE, openConns |-> 0,
     pmids |-> <<>>, articles |-> <<>>, excp |-> None, resp |-> None,
     outcome |-> "none", searchGets |-> 0, fetchGets |-> 0, grants |-> 0,
     reqFails |-> 0, searchDone |-> FALSE, fetchDone |-> FALSE,
     synthCalls |-> 0, raised |-> FALSE]

InitTasks ==
    /\ task = [t \in Tasks |-> NewTask]
    /\ metricsCurrent = None
    /\ metricsHistory = <<>>
    /\ sharedBudget = Burst

(* One RateLimiter used by several callers at once: rate_limiter.py:11-88. *)
(* Time is counted in ticks of 1/rate seconds, so a tick refills one token *)
(* and a wait of `needed / rate` seconds lasts `needed` ticks.  A rate is  *)
(* written as the number of half requests per second.                      *)
Callers == 1..NumCallers

Rates == {1, 4}

(* int(rate) *)
IntRate(rate) == rate \div 2

(* `burst or int(rate)`: rate_limiter.py:26 *)
BurstOf(rate, burst) ==
    IF burst # None /\ burst[1] # 0 THEN burst[1] ELSE IntRate(rate)

(* RateLimiter.__init__: rate_limiter.py:14-29.  elapsed is the time since *)
(* last_update; waiters are the callers suspended on the lock, in arrival  *)
(* order; refBucket is the reference bucket, refilled by time alone and    *)
(* drained by every grant.                                                 *)
NewRateLimiter(rate, burst) ==
    [rate |-> rate, burst |-> BurstOf(rate, burst), tokens |-> BurstOf(rate, burst),
     elapsed |-> 0, locked |-> FALSE, waiters |-> <<>>,
     refBucket |-> BurstOf(rate, burst)]

(* A caller of acquire: where it is, the tokens it asks for, the ticks     *)
(* left of its asyncio.sleep, the tokens deducted for it, and where it was *)
(* when it was cancelled                                                   *)
NewCaller == [pc |-> "idle", n |-> 0, sleep |-> 0, got |-> 0, was |-> "none"]

(* InMemoryCache.__init__: cache.py:63-70, with the clock read by          *)
(* datetime.utcnow() in seconds; entry holds, per key, what the latest     *)
(* set of that key asked for, until a delete or clear; got is the latest   *)
(* get                                                                     *)
CacheKeys == {"k1", "k2"}
CacheValues == {"v1", "v2"}

NewCache ==
    [default_ttl |-> DefaultTtl, store |-> [k \in CacheKeys |-> None], now |-> 0,
     entry |-> [k \in CacheKeys |-> None], got |-> None]

InitUtil ==
    /\ limiter = NewRateLimiter(4, None)
    /\ caller = [c \in Callers |-> NewCaller]
    /\ cache = NewCache

Init ==
    /\ InitTasks
    /\ InitUtil
    /\ bq = NewSearchQuery(<<>>)
    /\ bqOut = None
    /\ bqCalls = 0
    /\ arg = [fn |-> "none"]
    /\ ret = None

----------------------------------------------------------------------------
(* Helpers of the actions *)

SetTask(t, r) == task' = [task EXCEPT ![t] = r]

(* The exception classes raised in the pipeline; all derive from Exception *)
ExceptionClasses ==
    {"ValueError", "FileNotFoundError", "RetryError", "LLMError", "JSONDecodeError"}

(* MetricsTracker.end_query: src/medlit/observability/metrics.py:83-99 *)
EndQuery(status) ==
    IF metricsCurrent = None
    THEN UNCHANGED <<metricsCurrent, metricsHistory>>
    ELSE /\ metricsHistory' = Append(metricsHistory,
                                     [query |-> metricsCurrent[1].query, status |-> status])
         /\ metricsCurrent' = None

(* A handler that catches ValueError only *)
AskCatchesValueError(e) == e = "ValueError"

(* `except Exception as e`: medlit_agent.py:105 *)
AskCatches(e) == e \in ExceptionClasses

(* The empty query is not checked for *)
NeverNothingToSearch(full) == FALSE

(* `if not full_query`: search.py:32 *)
NothingToSearch(full) == full = <<>>

(* `if not pmids`: client.py:141 *)
NoIdentifiers(ids) == ids = <<>>

(* `if not pmids`: fetch.py:29 *)
NothingToFetch(ids) == ids = <<>>

(* The test of line 156 inverted *)
SomeArticles(arts) == arts # <<>>

(* `if not articles`: medlit_agent.py:156 *)
NoArticles(arts) == arts = <<>>

(* The connection is closed on the normal exit only *)
ClosesOnNormalExit(tk) == tk.hasClient /\ tk.excp = <<>>

(* `if self._client`: client.py:59 *)
ClosesOnExit(tk) == tk.hasClient

(* The search is started but not awaited *)
SearchNotAwaited(tk) ==
    tk.pc = "searched" \/ (tk.pc = "inflight" /\ tk.endpoint = "esearch")

(* `pmids = await self.search(query)`: client.py:140; the rest of          *)
(* search_and_fetch runs once the awaited search has returned.             *)
SearchAwaited(tk) == tk.pc = "searched"

(* An attempt that goes straight to the GET *)
AttemptEntrySkipsAcquire == "get"

(* The retried function starts with the token acquisition: client.py:95 *)
AttemptEntry == "acquire"

(* A new logical request: tenacity starts at attempt 1 *)
StartRequest(tk, ep) ==
    [tk EXCEPT !.endpoint = ep, !.attempt = 1, !.reqFails = 0, !.pc = AttemptEntry]

ErrorResponse(question, e) ==
    [question |-> question, status |-> "error", answer |-> <<>>, quality |-> None,
     citations |-> <<>>, pubmed_query |-> <<>>, articles_found |-> 0,
     articles_analyzed |-> 0, error_message |-> Some(<<e>>),
     disclaimer |-> MEDICAL_DISCLAIMER]

NoResultsResponse(question, q) ==
    [question |-> question, status |-> "no_results", answer |-> <<>>, quality |-> None,
     citations |-> <<>>, pubmed_query |-> BuildQuery(q), articles_found |-> 0,
     articles_analyzed |-> 0, error_message |-> None,
     disclaimer |-> MEDICAL_DISCLAIMER]

(* Author.citation_name: article.py:21-26 *)
CitationName(a) ==
    IF a.initials # "" THEN <<a.last_name, " ", a.initials>> ELSE <<a.last_name>>

(* Article.first_author: article.py:50-55 *)
FirstAuthor(art) ==
    IF art.authors # <<>> THEN CitationName(art.authors[1]) ELSE <<"Unknown">>

(* The suffix given to every article that has an author *)
EtAlForAnyAuthor(art) == Len(art.authors) > 0

(* `len(article.authors) > 1`: medlit_agent.py:285 *)
EtAl(art) == Len(art.authors) > 1

(* Citation(...) for one article: medlit_agent.py:282-288 *)
NewCitation(art) ==
    [pmid |-> art.pmid, title |-> art.title,
     authors |-> FirstAuthor(art) \o (IF EtAl(art) THEN <<" et al.">> ELSE <<>>)]

SuccessResponse(question, arts, summary, quality) ==
    [question |-> question, status |-> "success", answer |-> summary,
     quality |-> Some(quality),
     citations |-> [i \in 1..Len(arts) |-> NewCitation(arts[i])],
     pubmed_query |-> <<>>, articles_found |-> Len(arts),
     articles_analyzed |-> Len(arts), error_message |-> None,
     disclaimer |-> MEDICAL_DISCLAIMER]

----------------------------------------------------------------------------
(* AgentResponse.to_markdown and to_text: response.py:43-99.  A rendered   *)
(* text is the sequence of its pieces; the response of the model carries   *)
(* no limitations and its citations no year, so those lines are absent.    *)

(* "\n".join(parts) *)
RECURSIVE JoinLines(_)
JoinLines(parts) ==
    IF parts = <<>> THEN <<>>
    ELSE IF Len(parts) = 1 THEN parts[1]
    ELSE parts[1] \o <<"\n">> \o JoinLines(Tail(parts))

(* `self.error_message or 'An error occurred.'`: response.py:53, 89 *)
ErrorText(r) ==
    IF r.error_message # None /\ r.error_message[1] # <<>>
    THEN r.error_message[1] ELSE <<"An error occurred.">>

(* The answer section: response.py:48-53 (heading "## Answer\n\n" and      *)
(* "## Error\n\n") and 84-89 (heading "ANSWER:\n" and "ERROR:\n")          *)
AnswerParts(r, answerHead, errorHead) ==
    IF r.answer # <<>> THEN <<<<answerHead>> \o r.answer>>
    ELSE IF r.status = "no_results"
    THEN <<<<answerHead, "No relevant articles found for this query.">>>>
    ELSE IF r.status = "error" THEN <<<<errorHead>> \o ErrorText(r)>>
    ELSE <<>>

(* `quality.value.replace('_', ' ').title()`: response.py:57 *)
QualityTitle(q) ==
    CASE q = "high" -> "High" [] q = "moderate" -> "Moderate"
      [] q = "low" -> "Low" [] OTHER -> "Unknown"

(* response.py:56-57 *)
EvidenceParts(r) ==
    IF r.quality # None
    THEN <<<<"\n**Evidence Quality**: ", QualityTitle(r.quality[1])>>>>
    ELSE <<>>

(* Citation.url: evidence.py:41-44 *)
CitationUrl(c) == <<"https://pubmed.ncbi.nlm.nih.gov/", c.pmid>>

(* Citation.to_markdown: evidence.py:46-51 *)
CitationToMarkdown(c) == <<"[">> \o c.authors \o <<"](">> \o CitationUrl(c) \o <<")">>

(* response.py:65-68 *)
SourcesMarkdown(r) ==
    IF r.citations # <<>>
    THEN <<<<"\n## Sources">>>> \o
         [i \in 1..Len(r.citations) |->
             <<ToString(i), ". ">> \o CitationToMarkdown(r.citations[i])]
    ELSE <<>>

(* response.py:91-94 *)
SourcesText(r) ==
    IF r.citations # <<>>
    THEN <<<<"\nSOURCES:">>>> \o
         [i \in 1..Len(r.citations) |-> <<"- ">> \o CitationUrl(r.citations[i])]
    ELSE <<>>

(* response.py:71-72; the backquotes around the query are written as '    *)
SearchInfoParts(r) ==
    << <<"\n---\n*Query: '">> \o r.pubmed_query \o <<"'*">>,
       <<"*Articles found: ", ToString(r.articles_found), ", analyzed: ",
         ToString(r.articles_analyzed), "*">> >>

(* A renderer that leaves the disclaimer out *)
NoDisclaimerParts(r) == <<>>

(* `if self.disclaimer: parts.append(f"\n{self.disclaimer}")`:             *)
(* response.py:75-76, 96-97                                                *)
DisclaimerParts(r) ==
    IF r.disclaimer # <<>> THEN <<<<"\n">> \o r.disclaimer>> ELSE <<>>

ToMarkdown(r) ==
    JoinLines(AnswerParts(r, "## Answer\n\n", "## Error\n\n") \o EvidenceParts(r)
              \o SourcesMarkdown(r) \o SearchInfoParts(r) \o DisclaimerParts(r))

ToText(r) ==
    JoinLines(AnswerParts(r, "ANSWER:\n", "ERROR:\n") \o SourcesText(r)
              \o DisclaimerParts(r))

----------------------------------------------------------------------------
(* MedLitAgent.ask: medlit_agent.py:83-115 *)

(* ask, lines 92-94: start the metrics and enter _run_agent *)
AskStart(t) ==
    /\ task[t].pc = "idle"
    /\ SetTask(t, [task[t] EXCEPT !.pc = "run", !.kind = "ask"])
    /\ metricsCurrent' = Some([query |-> Question(t)])
    /\ UNCHANGED <<metricsHistory, sharedBudget, queryVars, utilVars>>

(* _run_agent, lines 127-139: default date range and query, PubMedClient() *)
(* and __aenter__.  date(year - 5, month, day) raises on 29 February.      *)
RunAgentBegin(t, today) ==
    /\ task[t].pc = "run"
    /\ IF today = "feb29"
       THEN SetTask(t, [task[t] EXCEPT !.excp = Some("ValueError"),
                                       !.raised = TRUE, !.pc = "ask_except"])
       ELSE SetTask(t, [task[t] EXCEPT !.query = NewSearchQuery(Question(t)),
                                       !.tokens = Burst, !.elapsed = 0,
                                       !.hasClient = TRUE, !.openConns = @ + 1,
                                       !.pc = "genquery"])
    /\ UNCHANGED <<agentVars, sharedBudget, queryVars, utilVars>>

(* _generate_search_query: medlit_agent.py:175-231 *)
GenerateSearchQuery(t, o) ==
    /\ task[t].pc = "genquery"
    /\ CASE o.kind = "prompt_error" ->
              SetTask(t, [task[t] EXCEPT !.excp = Some("FileNotFoundError"),
                                         !.raised = TRUE, !.pc = "aexit"])
         [] o.kind \in {"llm_error", "bad_json"} ->
              SetTask(t, [task[t] EXCEPT !.query.pubmed_query = Question(t),
                                         !.raised = TRUE, !.pc = "search"])
         [] o.kind = "no_json" ->
              SetTask(t, [task[t] EXCEPT !.pc = "search"])
         [] o.kind = "json" ->
              SetTask(t, [task[t] EXCEPT !.query.search_terms = o.search_terms,
                                         !.query.mesh_terms = o.mesh_terms,
                                         !.query.pubmed_query = o.pubmed_query,
                                         !.pc = "search"])
    /\ UNCHANGED <<agentVars, sharedBudget, queryVars, utilVars>>

(* A direct caller: `async with PubMedClient() as client:                  *)
(* await client.search_and_fetch(query)`, as in main.py:160-163            *)
DirectStart(t, q) ==
    /\ task[t].pc = "idle"
    /\ SetTask(t, [task[t] EXCEPT !.kind = "direct", !.query = q,
                                  !.tokens = Burst, !.elapsed = 0,
                                  !.hasClient = TRUE, !.openConns = @ + 1,
                                  !.pc = "search"])
    /\ UNCHANGED <<agentVars, sharedBudget, queryVars, utilVars>>

----------------------------------------------------------------------------
(* search_pubmed: search.py:29-56, up to the call of _request *)
SearchPubmed(t) ==
    /\ task[t].pc = "search"
    /\ IF NothingToSearch(BuildQuery(task[t].query))
       THEN SetTask(t, [task[t] EXCEPT !.pmids = <<>>, !.searchDone = TRUE,
                                       !.pc = "searched"])
       ELSE SetTask(t, StartRequest(task[t], "esearch"))
    /\ UNCHANGED <<agentVars, sharedBudget, queryVars, utilVars>>

(* RateLimiter.acquire, one iteration of its loop: rate_limiter.py:40-61 *)
Acquire(t) ==
    /\ task[t].pc = "acquire"
    /\ task[t].sleep = 0
    /\ LET tok == Refill(task[t].tokens, task[t].elapsed)
       IN  IF tok >= 1
           THEN SetTask(t, [task[t] EXCEPT !.tokens = tok - 1, !.elapsed = 0,
                                           !.lockHeld = FALSE, !.grants = @ + 1,
                                           !.pc = "get"])
           ELSE SetTask(t, [task[t] EXCEPT !.tokens = tok, !.elapsed = 0,
                                           !.lockHeld = TRUE,
                                           !.sleep = WaitTicks(1 - tok)])
    /\ UNCHANGED <<agentVars, sharedBudget, queryVars, utilVars>>

(* _request, lines 97-102: the GET is sent (through the client accessor,   *)
(* lines 63-68, which opens a connection if there is none)                 *)
SendGet(t) ==
    /\ task[t].pc = "get"
    /\ SetTask(t, [task[t] EXCEPT
            !.openConns = IF task[t].hasClient THEN @ ELSE @ + 1,
            !.hasClient = TRUE,
            !.searchGets = IF task[t].endpoint = "esearch" THEN @ + 1 ELSE @,
            !.fetchGets = IF task[t].endpoint = "efetch" THEN @ + 1 ELSE @,
            !.pc = "inflight"])
    /\ sharedBudget' = IF sharedBudget < 0 THEN sharedBudget ELSE sharedBudget - 1
    /\ UNCHANGED <<agentVars, queryVars, utilVars>>

(* _request, lines 102-105 under @retry (lines 77-80): a failed attempt is *)
(* retried after the backoff, or raises RetryError after the last attempt  *)
GetFails(t) ==
    /\ task[t].pc = "inflight"
    /\ IF task[t].attempt < StopAfterAttempt
       THEN SetTask(t, [task[t] EXCEPT
                !.raised = TRUE, !.reqFails = @ + 1,
                !.sleep = WaitExponential(task[t].attempt) * TicksPerSecond,
                !.attempt = @ + 1, !.pc = "backoff"])
       ELSE SetTask(t, [task[t] EXCEPT
                !.raised = TRUE, !.reqFails = @ + 1,
                !.excp = Some("RetryError"), !.pc = "aexit"])
    /\ UNCHANGED <<agentVars, sharedBudget, queryVars, utilVars>>

(* tenacity calls the function again once the backoff has elapsed *)
RetryWake(t) ==
    /\ task[t].pc = "backoff"
    /\ task[t].sleep = 0
    /\ SetTask(t, [task[t] EXCEPT !.pc = AttemptEntry])
    /\ UNCHANGED <<agentVars, sharedBudget, queryVars, utilVars>>

(* esearch answered: search.py:56-67 *)
SearchResponse(t, p) ==
    /\ task[t].pc = "inflight"
    /\ task[t].endpoint = "esearch"
    /\ SetTask(t, [task[t] EXCEPT !.pmids = ParseSearchResults(p),
                                  !.raised = @ \/ ~p.wellformed,
                                  !.searchDone = TRUE, !.pc = "searched"])
    /\ UNCHANGED <<agentVars, sharedBudget, queryVars, utilVars>>

(* search_and_fetch after the search: client.py:140-145, and               *)
(* fetch_articles up to the call of _request: fetch.py:29-45               *)
AfterSearch(t) ==
    /\ SearchAwaited(task[t])
    /\ IF NoIdentifiers(task[t].pmids)
       THEN SetTask(t, [task[t] EXCEPT !.articles = <<>>, !.pc = "fetched"])
       ELSE IF NothingToFetch(task[t].pmids)
       THEN SetTask(t, [task[t] EXCEPT !.articles = <<>>, !.pc = "fetched"])
       ELSE SetTask(t, StartRequest(task[t], "efetch"))
    /\ UNCHANGED <<agentVars, sharedBudget, queryVars, utilVars>>

(* efetch answered: fetch.py:45-56 *)
FetchResponse(t, p) ==
    /\ task[t].pc = "inflight"
    /\ task[t].endpoint = "efetch"
    /\ SetTask(t, [task[t] EXCEPT !.articles = ParseArticles(p),
                                  !.raised = @ \/ ~p.wellformed,
                                  !.fetchDone = TRUE, !.pc = "fetched"])
    /\ UNCHANGED <<agentVars, sharedBudget, queryVars, utilVars>>

----------------------------------------------------------------------------
(* _run_agent after search_and_fetch: medlit_agent.py:148-167 *)
AfterFetch(t) ==
    /\ task[t].pc = "fetched"
    /\ task[t].kind = "ask"
    /\ IF NoArticles(task[t].articles)
       THEN SetTask(t, [task[t] EXCEPT
                !.resp = Some(NoResultsResponse(Question(t), task[t].query)),
                !.pc = "aexit"])
       ELSE SetTask(t, [task[t] EXCEPT !.pc = "synth"])
    /\ UNCHANGED <<agentVars, sharedBudget, queryVars, utilVars>>

(* The direct caller's session body ends with the articles: main.py:162-163 *)
DirectReturn(t) ==
    /\ task[t].pc = "fetched"
    /\ task[t].kind = "direct"
    /\ SetTask(t, [task[t] EXCEPT !.pc = "aexit"])
    /\ UNCHANGED <<agentVars, sharedBudget, queryVars, utilVars>>

(* _synthesize_evidence: medlit_agent.py:233-320 *)
Synthesize(t, o) ==
    /\ task[t].pc = "synth"
    /\ LET tk == [task[t] EXCEPT !.synthCalls = @ + 1, !.pc = "aexit"]
           quality == IF o.kind = "json" /\ o.evidence_quality # None
                      THEN o.evidence_quality[1] ELSE "unknown"
           summary == IF o.kind = "json"
                      THEN (IF o.summary # None THEN o.summary[1] ELSE <<>>)
                      ELSE o.text
       IN  CASE o.kind = "llm_error" ->
                  SetTask(t, [tk EXCEPT !.excp = Some("LLMError"), !.raised = TRUE])
             [] o.kind = "bad_json" ->
                  SetTask(t, [tk EXCEPT !.excp = Some("JSONDecodeError"), !.raised = TRUE])
             [] o.kind \in {"no_json", "json"} ->
                  IF quality \in EvidenceQualityValues
                  THEN SetTask(t, [tk EXCEPT !.resp =
                          Some(SuccessResponse(Question(t), task[t].articles,
                                               summary, quality))])
                  ELSE SetTask(t, [tk EXCEPT !.excp = Some("ValueError"),
                                             !.raised = TRUE])
    /\ UNCHANGED <<agentVars, sharedBudget, queryVars, utilVars>>

(* PubMedClient.__aexit__: client.py:57-61; the client object and its      *)
(* limiter are dropped with the session                                    *)
ExitSession(t) ==
    /\ task[t].pc = "aexit"
    /\ LET closed == [task[t] EXCEPT
                        !.openConns = IF ClosesOnExit(task[t]) THEN @ - 1 ELSE @,
                        !.hasClient = IF ClosesOnExit(task[t]) THEN FALSE ELSE @,
                        !.tokens = Burst, !.elapsed = 0, !.sleep = 0]
       IN  IF task[t].kind = "ask"
           THEN SetTask(t, [closed EXCEPT
                    !.pc = IF task[t].excp # None THEN "ask_except" ELSE "ask_return"])
           ELSE SetTask(t, [closed EXCEPT
                    !.outcome = IF task[t].excp # None THEN "raised" ELSE "returned",
                    !.pc = "ended"])
    /\ UNCHANGED <<agentVars, sharedBudget, queryVars, utilVars>>

(* ask, lines 100-103: the response of _run_agent is returned *)
AskReturn(t) ==
    /\ task[t].pc = "ask_return"
    /\ SetTask(t, [task[t] EXCEPT !.outcome = "returned", !.pc = "ended"])
    /\ EndQuery("success")
    /\ UNCHANGED <<sharedBudget, queryVars, utilVars>>

(* ask, lines 105-115: an exception of _run_agent becomes an ERROR response *)
AskExcept(t) ==
    /\ task[t].pc = "ask_except"
    /\ IF AskCatches(task[t].excp[1])
       THEN /\ SetTask(t, [task[t] EXCEPT
                    !.resp = Some(ErrorResponse(Question(t), task[t].excp[1])),
                    !.outcome = "returned", !.pc = "ended"])
            /\ EndQuery("error")
       ELSE /\ SetTask(t, [task[t] EXCEPT !.outcome = "raised", !.pc = "ended"])
            /\ UNCHANGED agentVars
    /\ UNCHANGED <<sharedBudget, queryVars, utilVars>>

(* The call has ended: its frame and locals are gone, the caller holds the *)
(* outcome                                                                 *)
Finish(t) ==
    /\ task[t].pc = "ended"
    /\ SetTask(t, [NewTask EXCEPT !.pc = "done", !.kind = task[t].kind,
                                  !.outcome = task[t].outcome])
    /\ UNCHANGED <<agentVars, sharedBudget, queryVars, utilVars>>

(* One tick of time: the limiters' clocks advance, sleepers get closer to  *)
(* waking, the reference bucket refills.  Steps between suspension points  *)
(* take no time: time passes while every task waits (for a response, for a *)
(* sleep to end, or to be started).                                        *)
InSession(tk) ==
    tk.pc \in {"genquery", "search", "acquire", "get", "inflight", "backoff",
               "searched", "fetched", "synth", "aexit"}

Suspended(tk) ==
    \/ tk.pc \in {"idle", "inflight", "done"}
    \/ tk.pc \in {"acquire", "backoff"} /\ tk.sleep > 0

Tick ==
    /\ \A t \in Tasks : Suspended(task[t])
    /\ task' = [t \in Tasks |->
                  [task[t] EXCEPT
                     !.elapsed = IF InSession(task[t]) THEN Min(Burst, @ + 1) ELSE @,
                     !.sleep = Max(0, @ - 1)]]
    /\ sharedBudget' = IF sharedBudget < 0 THEN sharedBudget
                       ELSE Min(Burst, sharedBudget + RatePerTick)
    /\ UNCHANGED <<agentVars, queryVars, utilVars>>

(* Questions and sessions handled one at a time, as by the interactive    *)
(* loop of scripts/run_agent.py:55-63 and by ask_sync                      *)
Alone(t) == \A u \in Tasks \ {t} : task[u].pc \in {"idle", "done"}

Next ==
    \/ \E t \in Tasks : Alone(t) /\ AskStart(t)
    \/ \E t \in Tasks : \E today \in {"ordinary", "feb29"} : RunAgentBegin(t, today)
    \/ \E t \in Tasks : \E o \in QueryGenOutcomes : GenerateSearchQuery(t, o)
    \/ \E t \in Tasks : \E q \in DirectQueries : Alone(t) /\ DirectStart(t, q)
    \/ \E t \in Tasks : SearchPubmed(t)
    \/ \E t \in Tasks : Acquire(t)
    \/ \E t \in Tasks : SendGet(t)
    \/ \E t \in Tasks : GetFails(t)
    \/ \E t \in Tasks : RetryWake(t)
    \/ \E t \in Tasks : \E p \in SearchPayloads : SearchResponse(t, p)
    \/ \E t \in Tasks : AfterSearch(t)
    \/ \E t \in Tasks : \E p \in FetchPayloads : FetchResponse(t, p)
    \/ \E t \in Tasks : AfterFetch(t)
    \/ \E t \in Tasks : DirectReturn(t)
    \/ \E t \in Tasks : \E o \in SynthOutcomes : Synthesize(t, o)
    \/ \E t \in Tasks : ExitSession(t)
    \/ \E t \in Tasks : AskReturn(t)
    \/ \E t \in Tasks : AskExcept(t)
    \/ \E t \in Tasks : Finish(t)
    \/ Tick

Spec == Init /\ [][Next]_vars

----------------------------------------------------------------------------
(* Questions in flight together, as under the chat handler of app.py:184.  *)
(* The environment of this specification is the failure-free one: every    *)
(* GET succeeds and every completion is plain text.  Its behaviours are    *)
(* behaviours of the program, so a state it reaches is one the program     *)
(* reaches.                                                                *)

OneIdPayload == SearchDocument(TRUE, TRUE, <<"p1">>)
OneArticlePayload == FetchDocument(TRUE, <<WireRecord("p1")>>)
PlainText == [kind |-> "no_json", text |-> <<"raw text">>]

NextConcurrent ==
    \/ \E t \in Tasks : AskStart(t)
    \/ \E t \in Tasks : RunAgentBegin(t, "ordinary")
    \/ \E t \in Tasks : GenerateSearchQuery(t, [kind |-> "no_json"])
    \/ \E t \in Tasks : SearchPubmed(t)
    \/ \E t \in Tasks : Acquire(t)
    \/ \E t \in Tasks : SendGet(t)
    \/ \E t \in Tasks : SearchResponse(t, OneIdPayload)
    \/ \E t \in Tasks : AfterSearch(t)
    \/ \E t \in Tasks : FetchResponse(t, OneArticlePayload)
    \/ \E t \in Tasks : AfterFetch(t)
    \/ \E t \in Tasks : Synthesize(t, PlainText)
    \/ \E t \in Tasks : ExitSession(t)
    \/ \E t \in Tasks : AskReturn(t)
    \/ \E t \in Tasks : Finish(t)
    \/ Tick

SpecConcurrent == Init /\ [][NextConcurrent]_vars

----------------------------------------------------------------------------
(* From the fetched articles to the response.  The transport is the       *)
(* failure-free one; the efetch documents carry typed, authored records   *)
(* of the identifiers asked for, in any order, some possibly left out;    *)
(* the synthesis completion is any of SynthOutcomes.  A caller that asks  *)
(* several questions keeps the earlier responses (tests/evals/run_evals.py)*)

MetaAnalysis(id) ==
    [WireRecord(id) EXCEPT !.pubtypes = <<"Meta-Analysis">>, !.authors = <<Smith, Jones>>]
CaseReport(id) ==
    [WireRecord(id) EXCEPT !.pubtypes = <<"Case Report">>, !.authors = <<Jones>>]
Letter(id) ==
    [WireRecord(id) EXCEPT !.pubtypes = <<"Letter">>]

EvidenceSearchPayloads == {SearchDocument(TRUE, TRUE, <<"p1", "p2", "p3">>)}

EvidenceRecords ==
    {MetaAnalysis("p1"), CaseReport("p1"), CaseReport("p2"), Letter("p3")}

(* The efetch documents that answer a request for the identifiers ids *)
EvidenceFetchPayloads(ids) ==
    {FetchDocument(TRUE, recs) :
        recs \in {x \in SeqsUpTo(EvidenceRecords, Len(ids)) :
                    /\ \A i \in 1..Len(x) : \E k \in 1..Len(ids) : x[i].pmid = ids[k]
                    /\ \A i, j \in 1..Len(x) : i # j => x[i].pmid # x[j].pmid}}

Settled(t) == \A u \in Tasks \ {t} : task[u].pc \in {"idle", "ended"}

NextEvidence ==
    \/ \E t \in Tasks : Settled(t) /\ AskStart(t)
    \/ \E t \in Tasks : RunAgentBegin(t, "ordinary")
    \/ \E t \in Tasks : GenerateSearchQuery(t, [kind |-> "no_json"])
    \/ \E t \in Tasks : SearchPubmed(t)
    \/ \E t \in Tasks : Acquire(t)
    \/ \E t \in Tasks : SendGet(t)
    \/ \E t \in Tasks : \E p \in EvidenceSearchPayloads : SearchResponse(t, p)
    \/ \E t \in Tasks : AfterSearch(t)
    \/ \E t \in Tasks : \E p \in EvidenceFetchPayloads(task[t].pmids) : FetchResponse(t, p)
    \/ \E t \in Tasks : AfterFetch(t)
    \/ \E t \in Tasks : \E o \in SynthOutcomes : Synthesize(t, o)
    \/ \E t \in Tasks : ExitSession(t)
    \/ \E t \in Tasks : AskReturn(t)
    \/ \E t \in Tasks : AskExcept(t)

SpecEvidence == Init /\ [][NextEvidence]_vars

----------------------------------------------------------------------------
(* build_query on its own: every SearchQuery of the bounded space *)

TermAtoms == {<<"aspirin">>, <<"statin">>}
TypeAtoms == {<<"Review">>, <<"Meta-Analysis">>}

QuerySpace ==
    [original_question : {<<"q">>},
     search_terms : SeqsUpTo(TermAtoms, MaxTerms),
     mesh_terms : SeqsUpTo(TermAtoms, MaxTerms),
     pubmed_query : {<<>>, <<"aspirin[tiab]">>},
     filters : [species : {<<>>, <<"humans">>},
                language : {<<>>, <<"english">>},
                article_types : SeqsUpTo(TypeAtoms, MaxTerms)]]

InitQuery ==
    /\ InitTasks
    /\ InitUtil
    /\ bq \in QuerySpace
    /\ bqOut = None
    /\ bqCalls = 0
    /\ arg = [fn |-> "none"]
    /\ ret = None

(* build_query memoising its result in the pubmed_query field *)
BuildQueryStoresResult(q) == [q EXCEPT !.pubmed_query = BuildQuery(q)]

(* The SearchQuery after a call of build_query: the method assigns to     *)
(* locals only (parts, mesh_part, terms_part, filter_strings), and        *)
(* to_query_filters builds a fresh list: query.py:40-49, 73-87            *)
AfterBuildQuery(q) == q

(* A call of SearchQuery.build_query: query.py:71-87 *)
BuildQueryCall ==
    /\ bqCalls < MaxCalls
    /\ bqOut' = Some(BuildQuery(bq))
    /\ bq' = AfterBuildQuery(bq)
    /\ bqCalls' = bqCalls + 1
    /\ UNCHANGED <<task, agentVars, sharedBudget, arg, ret, utilVars>>

NextQuery == BuildQueryCall

SpecQuery == InitQuery /\ [][NextQuery]_vars

----------------------------------------------------------------------------
(* Functions called on their own: one call per behaviour, the input drawn *)
(* from the bounded input space of the function                           *)

(* Publication dates, as day numbers *)
Dates == 1..MaxDate
OptionalDates == {None} \cup {Some(d) : d \in Dates}

(* The date test with >= for > *)
DatesInvertedOrEqual(min_date, max_date) ==
    min_date # None /\ max_date # None /\ min_date[1] >= max_date[1]

(* `self.min_date and self.max_date and self.min_date > self.max_date`:    *)
(* query.py:21 (a date object is always truthy)                            *)
DatesInverted(min_date, max_date) ==
    min_date # None /\ max_date # None /\ min_date[1] > max_date[1]

(* SearchFilters(min_date=..., max_date=...): the model validator raises   *)
(* ValueError, which pydantic reports as a ValidationError: query.py:18-23 *)
NewSearchFilters(min_date, max_date) ==
    IF DatesInverted(min_date, max_date)
    THEN Raised("ValidationError")
    ELSE Returned([min_date |-> min_date, max_date |-> max_date,
                   species |-> DefaultFilters.species,
                   language |-> DefaultFilters.language,
                   article_types |-> DefaultFilters.article_types])

FilterCalls ==
    {[fn |-> "SearchFilters", min_date |-> a, max_date |-> b] :
        a \in OptionalDates, b \in OptionalDates}

(* Strings handed to parse_search_results: documents, and a str that       *)
(* cannot be encoded                                                       *)
SearchStrings ==
    {SearchDocument(FALSE, FALSE, <<>>), SearchDocument(TRUE, FALSE, <<>>),
     [encodable |-> FALSE, wellformed |-> FALSE, idlist |-> FALSE, ids |-> <<>>]}
    \cup {SearchDocument(TRUE, TRUE, s) : s \in SeqsUpTo(IdTexts \cup {"p3"}, MaxIds + 1)}

SearchParseCalls == {[fn |-> "parse_search_results", payload |-> p] : p \in SearchStrings}

(* PubmedArticle elements of the documents handed to parse_articles *)
CallRecords ==
    {WireRecord("p1"),
     WireRecord(""),
     [WireRecord("p2") EXCEPT !.title = <<>>],
     [WireRecord("p3") EXCEPT !.medline = FALSE],
     [WireRecord("p3") EXCEPT !.article = FALSE],
     [WireRecord("p3") EXCEPT !.forename = "empty", !.authors = <<Smith>>],
     [WireRecord("p2") EXCEPT !.authors = <<Smith, Jones>>,
                              !.pubtypes = <<"Review", "Meta-Analysis">>]}

FetchStrings ==
    {FetchDocument(FALSE, <<>>),
     [encodable |-> FALSE, wellformed |-> FALSE, records |-> <<>>]}
    \cup {FetchDocument(TRUE, recs) : recs \in SeqsUpTo(CallRecords, MaxIds + 1)}

ArticleParseCalls == {[fn |-> "parse_articles", payload |-> p] : p \in FetchStrings}

(* EvidenceQuality.from_article_type: evidence.py:14-29.  The keywords of *)
(* lines 22-26 that occur in the lower-cased article type.                *)
KeywordsIn(article_type) ==
    CASE article_type = "Meta-Analysis" -> {"meta-analysis"}
      [] article_type = "Systematic Review" -> {"systematic review", "review"}
      [] article_type = "Randomized Controlled Trial" -> {"randomized"}
      [] article_type = "Clinical Trial" -> {"clinical trial"}
      [] article_type = "Cohort" -> {"cohort"}
      [] article_type = "Case-Control" -> {"case-control"}
      [] article_type = "Case Report" -> {"case report"}
      [] article_type = "Case Series" -> {"case series"}
      [] article_type = "Review" -> {"review"}
      [] OTHER -> {}

FromArticleType(article_type) ==
    IF article_type = None \/ article_type = Some("") THEN "unknown"
    ELSE LET kw == KeywordsIn(article_type[1])
         IN  IF kw \cap {"meta-analysis", "systematic review"} # {} THEN "high"
             ELSE IF kw \cap {"randomized", "rct", "clinical trial"} # {} THEN "moderate"
             ELSE IF kw \cap {"cohort", "case-control", "case report", "case series",
                              "review"} # {} THEN "low"
             ELSE "unknown"

ArticleTypeNames ==
    {"Meta-Analysis", "Systematic Review", "Randomized Controlled Trial",
     "Clinical Trial", "Cohort", "Case-Control", "Case Report", "Case Series",
     "Review", "Letter", ""}

ArticleTypeCalls ==
    {[fn |-> "from_article_type", article_type |-> a] :
        a \in {None} \cup {Some(n) : n \in ArticleTypeNames}}

(* citation_accuracy: tests/evals/evaluators.py:20-80.  An answer is a     *)
(* sequence of pieces: plain words, and numbers written as "PMID: n",      *)
(* "PMID n", "[n]" or "(n)"; the citations are the dictionaries made by    *)
(* run_evals.py:115-123, given by their pmid.                              *)
EvalIds == {"12345", "1234567", "7654321"}

NumDigits(id) == IF id = "12345" THEN 5 ELSE 7

Word == [form |-> "word", id |-> ""]

AnswerPieces ==
    {Word} \cup {[form |-> f, id |-> i] : f \in {"PMID: ", "PMID ", "[", "("}, i \in EvalIds}

(* pmid_patterns: evaluators.py:37-42 *)
MatchesPmidPattern(piece) ==
    \/ piece.form \in {"PMID: ", "PMID "} /\ NumDigits(piece.id) \in 1..8
    \/ piece.form \in {"[", "("} /\ NumDigits(piece.id) \in 7..8

(* mentioned_pmids: evaluators.py:44-47 *)
MentionedPmids(answer) ==
    {answer[i].id : i \in {k \in 1..Len(answer) : MatchesPmidPattern(answer[k])}}

(* fetched_pmids: evaluators.py:58-63 *)
FetchedPmids(citations) == {citations[i] : i \in 1..Len(citations)}

(* `invalid_pmids = mentioned_pmids - fetched_pmids`: evaluators.py:66 *)
InvalidPmids(mentioned, fetched) == mentioned \ fetched

CitationAccuracy(answer, citations) ==
    IF answer = <<>> THEN [score |-> 0, reasoning |-> "No answer provided"]
    ELSE IF MentionedPmids(answer) = {}
    THEN [score |-> 1, reasoning |-> "No specific PMIDs mentioned"]
    ELSE IF InvalidPmids(MentionedPmids(answer), FetchedPmids(citations)) # {}
    THEN [score |-> 0, reasoning |-> "Hallucinated PMIDs found"]
    ELSE [score |-> 1, reasoning |-> "All mentioned PMIDs are valid"]

CitationAccuracyCalls ==
    {[fn |-> "citation_accuracy", answer |-> a, citations |-> c] :
        a \in SeqsUpTo(AnswerPieces, 2),
        c \in {<<>>, <<"12345">>, <<"1234567">>, <<"1234567", "12345">>}}

(* _parse_article_type on the PublicationTypeList of a record: texts of    *)
(* the PublicationType elements, "" for an element without text            *)
PublicationTypeTexts ==
    {"Meta-Analysis", "Systematic Review", "Randomized Controlled Trial", "Clinical Trial",
     "Review", "Guideline", "Practice Guideline", "Journal Article", "Letter", ""}

PublicationTypeCalls ==
    {[fn |-> "_parse_article_type", medline |-> [WireRecord("p1") EXCEPT !.pubtypes = x]] :
        x \in SeqsUpTo(PublicationTypeTexts, 3)}

CallSpace ==
    FilterCalls \cup SearchParseCalls \cup ArticleParseCalls \cup ArticleTypeCalls
    \cup CitationAccuracyCalls \cup PublicationTypeCalls

InitCalls ==
    /\ InitTasks
    /\ InitUtil
    /\ bq = NewSearchQuery(<<>>)
    /\ bqOut = None
    /\ bqCalls = 0
    /\ arg \in CallSpace
    /\ ret = None

ConstructSearchFilters ==
    /\ arg.fn = "SearchFilters"
    /\ ret = None
    /\ ret' = Some(NewSearchFilters(arg.min_date, arg.max_date))
    /\ UNCHANGED <<task, agentVars, sharedBudget, bq, bqOut, bqCalls, arg, utilVars>>

CallParseSearchResults ==
    /\ arg.fn = "parse_search_results"
    /\ ret = None
    /\ ret' = Some(ParseSearchResultsOutcome(arg.payload))
    /\ UNCHANGED <<task, agentVars, sharedBudget, bq, bqOut, bqCalls, arg, utilVars>>

CallParseArticles ==
    /\ arg.fn = "parse_articles"
    /\ ret = None
    /\ ret' = Some(ParseArticlesOutcome(arg.payload))
    /\ UNCHANGED <<task, agentVars, sharedBudget, bq, bqOut, bqCalls, arg, utilVars>>

CallFromArticleType ==
    /\ arg.fn = "from_article_type"
    /\ ret = None
    /\ ret' = Some(Returned(FromArticleType(arg.article_type)))
    /\ UNCHANGED <<task, agentVars, sharedBudget, bq, bqOut, bqCalls, arg, utilVars>>

CallCitationAccuracy ==
    /\ arg.fn = "citation_accuracy"
    /\ ret = None
    /\ ret' = Some(Returned(CitationAccuracy(arg.answer, arg.citations)))
    /\ UNCHANGED <<task, agentVars, sharedBudget, bq, bqOut, bqCalls, arg, utilVars>>

CallParseArticleType ==
    /\ arg.fn = "_parse_article_type"
    /\ ret = None
    /\ ret' = Some(Returned(ParseArticleType(arg.medline)))
    /\ UNCHANGED <<task, agentVars, sharedBudget, bq, bqOut, bqCalls, arg, utilVars>>

NextCalls ==
    \/ ConstructSearchFilters
    \/ CallParseSearchResults
    \/ CallParseArticles
    \/ CallFromArticleType
    \/ CallCitationAccuracy
    \/ CallParseArticleType

SpecCalls == InitCalls /\ [][NextCalls]_vars

-----------------------------------------------------------------------------
(* The efetch requests of the three paths that reach fetch_articles: one   *)
(* call per behaviour, over identifier lists long enough to pass the       *)
(* limit of the fetch tool.                                                *)

(* `le=50` of SearchQuery.max_results: query.py:69 *)
MaxResultsLe == 50

(* `pmids[:20]`: tools/evidence_fetch.py:34 *)
FetchEvidenceLimit == 20

(* The longest identifier list handed to fetch and to the fetch tool *)
MaxFetchIds == 22

(* A list of n distinct identifiers, written as their numbers *)
PmidList(n) == [i \in 1..n |-> i]

(* The efetch requests one call of fetch_articles sends: fetch.py:29-45 *)
FetchArticlesRequests(pmids) ==
    IF NothingToFetch(pmids) THEN <<>>
    ELSE <<[endpoint |-> "efetch.fcgi", id |-> pmids]>>

(* PubMedClient.fetch: client.py:118-127 *)
ClientFetchRequests(pmids) == FetchArticlesRequests(pmids)

(* search_and_fetch once search has returned pmids: client.py:140-145 *)
SearchAndFetchRequests(pmids) ==
    IF NoIdentifiers(pmids) THEN <<>> ELSE ClientFetchRequests(pmids)

(* `pmids = pmids[:20]`: tools/evidence_fetch.py:34 *)
LimitPmids(pmids) == SubSeq(pmids, 1, Min(Len(pmids), FetchEvidenceLimit))

(* fetch_evidence: tools/evidence_fetch.py:26-40 *)
FetchEvidenceRequests(pmids) ==
    IF pmids = <<>> THEN <<>> ELSE ClientFetchRequests(LimitPmids(pmids))

(* search_and_fetch(query) with query.max_results in 1..50, before esearch *)
(* has answered; fetch(pmids) and fetch_evidence(pmids)                    *)
FetchPathCalls ==
    {[fn |-> "search_and_fetch", max_results |-> m, searched |-> FALSE, pmids |-> <<>>] :
        m \in 1..MaxResultsLe}
    \cup {[fn |-> "fetch", pmids |-> PmidList(n)] : n \in 0..MaxFetchIds}
    \cup {[fn |-> "fetch_evidence", pmids |-> PmidList(n)] : n \in 0..MaxFetchIds}

InitFetch ==
    /\ InitTasks
    /\ InitUtil
    /\ bq = NewSearchQuery(<<>>)
    /\ bqOut = None
    /\ bqCalls = 0
    /\ arg \in FetchPathCalls
    /\ ret = None

(* `pmids = await self.search(query)`: client.py:140; esearch was asked    *)
(* for retmax = max_results identifiers (search.py:40) and answers with n  *)
(* of them                                                                 *)
SearchAndFetchSearched(n) ==
    /\ arg.fn = "search_and_fetch"
    /\ ~arg.searched
    /\ n \in 0..arg.max_results
    /\ arg' = [arg EXCEPT !.searched = TRUE, !.pmids = PmidList(n)]
    /\ UNCHANGED <<task, agentVars, sharedBudget, bq, bqOut, bqCalls, ret, utilVars>>

(* The rest of search_and_fetch: client.py:141-145 *)
SearchAndFetchFetch ==
    /\ arg.fn = "search_and_fetch"
    /\ arg.searched
    /\ ret = None
    /\ ret' = Some([requests |-> SearchAndFetchRequests(arg.pmids)])
    /\ UNCHANGED <<task, agentVars, sharedBudget, bq, bqOut, bqCalls, arg, utilVars>>

CallClientFetch ==
    /\ arg.fn = "fetch"
    /\ ret = None
    /\ ret' = Some([requests |-> ClientFetchRequests(arg.pmids)])
    /\ UNCHANGED <<task, agentVars, sharedBudget, bq, bqOut, bqCalls, arg, utilVars>>

CallFetchEvidence ==
    /\ arg.fn = "fetch_evidence"
    /\ ret = None
    /\ ret' = Some([requests |-> FetchEvidenceRequests(arg.pmids)])
    /\ UNCHANGED <<task, agentVars, sharedBudget, bq, bqOut, bqCalls, arg, utilVars>>

NextFetch ==
    \/ \E n \in 0..MaxResultsLe : SearchAndFetchSearched(n)
    \/ SearchAndFetchFetch
    \/ CallClientFetch
    \/ CallFetchEvidence

SpecFetch == InitFetch /\ [][NextFetch]_vars

-----------------------------------------------------------------------------
(* RateLimiter.acquire called by concurrent tasks of one event loop:       *)
(* rate_limiter.py:31-88.  A task runs without interruption from one await *)
(* that suspends it to the next; acquire suspends where it waits for the   *)
(* lock (line 40) and where it sleeps (line 60).                           *)

BurstArgs == {None, Some(0), Some(1)}

(* A refill that is not capped at burst *)
RefillUncapped(l) == [l EXCEPT !.tokens = l.tokens + l.elapsed, !.elapsed = 0]

(* _refill: rate_limiter.py:63-73 *)
RefillLimiter(l) ==
    [l EXCEPT !.tokens = Min(l.burst, l.tokens + l.elapsed), !.elapsed = 0]

(* The lock can be taken at once: it is free and nobody waits for it       *)
(* (`async with self._lock`, rate_limiter.py:40)                           *)
LockAlwaysFree(l) == TRUE

LockFree(l) == ~l.locked /\ l.waiters = <<>>

(* Leaving `async with self._lock` wakes the caller that waited longest *)
WakeUpFirst(cs, l) ==
    IF l.waiters # <<>> /\ cs[l.waiters[1]].pc = "lock_wait"
    THEN [cs EXCEPT ![l.waiters[1]].pc = "woken"]
    ELSE cs

WithoutWaiter(l, c) ==
    [l EXCEPT !.waiters = SelectSeq(@, LAMBDA w : w # c)]

(* A cancelled sleep that keeps the lock *)
KeepLock(l) == l

(* __aexit__ of the lock: the lock is released *)
Unlock(l) == [l EXCEPT !.locked = FALSE]

(* CancelledError raised by the sleep of line 60 leaves `async with`       *)
UnlockOnCancel(l) == Unlock(l)

(* One iteration of the loop by caller c, who holds the lock of l:         *)
(* rate_limiter.py:43-61                                                   *)
AcquireLoop(c, l, cs) ==
    LET r == RefillLimiter(l)
        n == cs[c].n
    IN  IF r.tokens >= n
        THEN /\ limiter' = Unlock([r EXCEPT !.tokens = @ - n, !.refBucket = @ - n])
             /\ caller' = WakeUpFirst([cs EXCEPT ![c].pc = "done", ![c].got = n], r)
        ELSE /\ limiter' = r
             /\ caller' = [cs EXCEPT ![c].pc = "sleeping", ![c].sleep = n - r.tokens]

(* acquire(n) is called: rate_limiter.py:31-40 and, when the lock is free, *)
(* the first iteration of the loop                                         *)
AcquireCall(c, n) ==
    /\ caller[c].pc = "idle"
    /\ IF LockFree(limiter)
       THEN AcquireLoop(c, [limiter EXCEPT !.locked = TRUE], [caller EXCEPT ![c].n = n])
       ELSE /\ limiter' = [limiter EXCEPT !.waiters = Append(@, c)]
            /\ caller' = [caller EXCEPT ![c].pc = "lock_wait", ![c].n = n]
    /\ UNCHANGED <<task, agentVars, sharedBudget, queryVars, cache>>

(* The woken caller runs: it takes the lock and enters the loop *)
LockGranted(c) ==
    /\ caller[c].pc = "woken"
    /\ AcquireLoop(c, [WithoutWaiter(limiter, c) EXCEPT !.locked = TRUE], caller)
    /\ UNCHANGED <<task, agentVars, sharedBudget, queryVars, cache>>

(* asyncio.sleep(wait_time) is over: the next iteration, lines 61 and 43-60 *)
WakeFromSleep(c) ==
    /\ caller[c].pc = "sleeping"
    /\ caller[c].sleep = 0
    /\ AcquireLoop(c, limiter, caller)
    /\ UNCHANGED <<task, agentVars, sharedBudget, queryVars, cache>>

(* available_tokens: rate_limiter.py:84-88 *)
AvailableTokens ==
    /\ limiter' = RefillLimiter(limiter)
    /\ UNCHANGED <<task, agentVars, sharedBudget, queryVars, caller, cache>>

(* A tick of time.monotonic(); elapsed is kept up to burst, beyond which   *)
(* _refill gives the same result                                           *)
TickLimiter ==
    /\ limiter' = [limiter EXCEPT !.elapsed = Min(@ + 1, limiter.burst),
                                  !.refBucket = Min(limiter.burst, @ + 1)]
    /\ caller' = [c \in Callers |-> [caller[c] EXCEPT !.sleep = Max(0, @ - 1)]]
    /\ UNCHANGED <<task, agentVars, sharedBudget, queryVars, cache>>

(* The task of caller c is cancelled while acquire is suspended:           *)
(* CancelledError is raised at line 40 (waiting for the lock) or at line   *)
(* 60 (asleep inside `async with self._lock`, which releases the lock)     *)
CancelCaller(c) ==
    /\ caller[c].pc \in {"lock_wait", "woken", "sleeping"}
    /\ LET l == IF caller[c].pc = "sleeping" THEN UnlockOnCancel(limiter)
                ELSE WithoutWaiter(limiter, c)
           cs == [caller EXCEPT ![c].pc = "cancelled", ![c].sleep = 0,
                                ![c].was = caller[c].pc]
       IN  /\ limiter' = l
           /\ caller' = IF l.locked THEN cs ELSE WakeUpFirst(cs, l)
    /\ UNCHANGED <<task, agentVars, sharedBudget, queryVars, cache>>

InitLimiter ==
    /\ InitTasks
    /\ bq = NewSearchQuery(<<>>)
    /\ bqOut = None
    /\ bqCalls = 0
    /\ arg = [fn |-> "none"]
    /\ ret = None
    /\ limiter \in {NewRateLimiter(r, b) : r \in Rates, b \in BurstArgs}
    /\ caller = [c \in Callers |-> NewCaller]
    /\ cache = NewCache

NextLimiter ==
    \/ \E c \in Callers : \E n \in 1..MaxAcquire : AcquireCall(c, n)
    \/ \E c \in Callers : LockGranted(c)
    \/ \E c \in Callers : WakeFromSleep(c)
    \/ AvailableTokens
    \/ TickLimiter

SpecLimiter == InitLimiter /\ [][NextLimiter]_vars

(* Time passes, and a task that can run is run: the event loop resumes the *)
(* woken waiter of the lock and the sleeper whose sleep is over            *)
FairLimiter ==
    /\ WF_vars(TickLimiter)
    /\ \A c \in Callers : WF_vars(LockGranted(c))
    /\ \A c \in Callers : WF_vars(WakeFromSleep(c))

SpecLimiterFair == SpecLimiter /\ FairLimiter

-----------------------------------------------------------------------------
(* Cancellation.  A behaviour is either a limiter shared by concurrent     *)
(* callers, any of whom may be cancelled while suspended in acquire, or    *)
(* the sessions of the agent and of direct callers, any of which may be    *)
(* cancelled while suspended in _request.                                  *)

(* The task of a session is cancelled at a suspension point of _request:   *)
(* asleep in acquire (rate_limiter.py:60, client.py:95), during the GET    *)
(* (client.py:102) or during the backoff of @retry (client.py:77-80).      *)
(* CancelledError is no Exception: @retry does not retry it, it leaves the *)
(* `async with PubMedClient()` block through __aexit__ (client.py:57-61)   *)
(* and is not caught by ask (medlit_agent.py:105).                         *)
Cancel(t) ==
    /\ \/ task[t].pc = "acquire" /\ task[t].lockHeld
       \/ task[t].pc \in {"inflight", "backoff"}
    /\ SetTask(t, [task[t] EXCEPT !.excp = Some("CancelledError"), !.raised = TRUE,
                                  !.lockHeld = FALSE, !.sleep = 0, !.pc = "aexit"])
    /\ UNCHANGED <<agentVars, sharedBudget, queryVars, utilVars>>

InitCancel ==
    /\ InitTasks
    /\ bq = NewSearchQuery(<<>>)
    /\ bqOut = None
    /\ bqCalls = 0
    /\ ret = None
    /\ caller = [c \in Callers |-> NewCaller]
    /\ cache = NewCache
    /\ \/ /\ arg = [fn |-> "acquire"]
          /\ limiter \in {NewRateLimiter(r, b) : r \in Rates, b \in BurstArgs}
       \/ /\ arg = [fn |-> "session"]
          /\ limiter = NewRateLimiter(4, None)

NextCancel ==
    \/ arg.fn = "acquire" /\ NextLimiter
    \/ arg.fn = "acquire" /\ \E c \in Callers : CancelCaller(c)
    \/ arg.fn = "session" /\ Next
    \/ arg.fn = "session" /\ \E t \in Tasks : Cancel(t)

SpecCancel == InitCancel /\ [][NextCancel]_vars

-----------------------------------------------------------------------------
(* InMemoryCache used by concurrent questions: cache.py:60-114.  No method *)
(* awaits, so each call runs unbroken and the calls of the questions       *)
(* interleave as wholes.  Time is the utcnow() clock in seconds.           *)

TtlArgs == {None, Some(0), Some(1)}

(* `ttl = ttl or self.default_ttl`: cache.py:93 *)
TtlUsed(c, ttl) == IF ttl # None /\ ttl[1] # 0 THEN ttl[1] ELSE c.default_ttl

(* `datetime.utcnow() > expiry`: cache.py:79 *)
Expired(c, item) == c.now > item.expiry

(* get: cache.py:72-84 *)
CacheGet(k) ==
    /\ cache' =
         IF cache.store[k] = None
         THEN [cache EXCEPT !.got = Some([key |-> k, result |-> None])]
         ELSE IF Expired(cache, cache.store[k][1])
         THEN [cache EXCEPT !.store[k] = None,
                            !.got = Some([key |-> k, result |-> None])]
         ELSE [cache EXCEPT !.got = Some([key |-> k,
                                          result |-> Some(cache.store[k][1].value)])]
    /\ UNCHANGED <<task, agentVars, sharedBudget, queryVars, limiter, caller>>

(* set: cache.py:86-96 *)
CacheSet(k, v, ttl) ==
    /\ cache' = [cache EXCEPT
                    !.store[k] = Some([value |-> v,
                                       expiry |-> cache.now + TtlUsed(cache, ttl)]),
                    !.entry[k] = Some([value |-> v, set_at |-> cache.now, ttl |-> ttl])]
    /\ UNCHANGED <<task, agentVars, sharedBudget, queryVars, limiter, caller>>

(* delete: cache.py:98-101 *)
CacheDelete(k) ==
    /\ cache' = [cache EXCEPT !.store[k] = None, !.entry[k] = None]
    /\ UNCHANGED <<task, agentVars, sharedBudget, queryVars, limiter, caller>>

(* clear: cache.py:103-106 *)
CacheClear ==
    /\ cache' = [cache EXCEPT !.store = [k \in CacheKeys |-> None],
                              !.entry = [k \in CacheKeys |-> None]]
    /\ UNCHANGED <<task, agentVars, sharedBudget, queryVars, limiter, caller>>

(* cleanup_expired: cache.py:108-114 *)
CleanupExpired ==
    /\ cache' = [cache EXCEPT !.store =
                    [k \in CacheKeys |->
                        IF cache.store[k] # None /\ Expired(cache, cache.store[k][1])
                        THEN None ELSE cache.store[k]]]
    /\ UNCHANGED <<task, agentVars, sharedBudget, queryVars, limiter, caller>>

(* A second passes *)
CacheTick ==
    /\ cache.now < MaxNow
    /\ cache' = [cache EXCEPT !.now = @ + 1]
    /\ UNCHANGED <<task, agentVars, sharedBudget, queryVars, limiter, caller>>

NextCache ==
    \/ \E k \in CacheKeys : CacheGet(k)
    \/ \E k \in CacheKeys : \E v \in CacheValues : \E ttl \in TtlArgs : CacheSet(k, v, ttl)
    \/ \E k \in CacheKeys : CacheDelete(k)
    \/ CacheClear
    \/ CleanupExpired
    \/ CacheTick

SpecCache == Init /\ [][NextCache]_vars

----------------------------------------------------------------------------
(* Properties *)

Gets(tk) == tk.searchGets + tk.fetchGets

(* GETs of the logical request in progress (or last made) *)
ReqGets(tk) ==
    IF tk.endpoint = "esearch" THEN tk.searchGets
    ELSE IF tk.endpoint = "efetch" THEN tk.fetchGets ELSE 0

InRequest(tk) == tk.pc \in {"acquire", "get", "inflight", "backoff"}

AskEnded(t) == task[t].kind = "ask" /\ task[t].pc = "ended"

(* C1, as amended: ask never propagates an exception: it always returns an *)
(* AgentResponse; when an exception escapes _run_agent the status is ERROR *)
(* and error_message is set, and when none escapes the status is SUCCESS   *)
(* or NO_RESULTS.                                                          *)
C1_AskConvertsEscapedExceptions ==
    \A t \in Tasks :
        AskEnded(t) =>
            /\ task[t].outcome = "returned"
            /\ task[t].resp # None
            /\ IF task[t].excp # None
               THEN /\ task[t].resp[1].status = "error"
                    /\ task[t].resp[1].error_message # None
               ELSE task[t].resp[1].status \in {"success", "no_results"}

(* C1, as stated: whenever an exception occurred inside the run (absorbed  *)
(* there or not) the returned status is ERROR and error_message is set.    *)
C1_AnyExceptionGivesError ==
    \A t \in Tasks :
        AskEnded(t) =>
            /\ task[t].outcome = "returned"
            /\ task[t].resp # None
            /\ task[t].raised =>
                  /\ task[t].resp[1].status = "error"
                  /\ task[t].resp[1].error_message # None

C1_Witness ==
    \E t \in Tasks :
        /\ AskEnded(t)
        /\ task[t].excp = Some("RetryError")
        /\ task[t].endpoint = "efetch"
        /\ task[t].outcome = "returned"
        /\ task[t].resp # None
        /\ task[t].resp[1].status = "error"

(* C2: once search has returned zero identifiers no GET is ever sent to    *)
(* efetch, search_and_fetch yields the empty list, and ask ends with       *)
(* status NO_RESULTS and articles_found = 0.                               *)
C2_ZeroIdentifiersNoFetch ==
    \A t \in Tasks :
        (task[t].searchDone /\ task[t].pmids = <<>>) =>
            /\ task[t].fetchGets = 0
            /\ task[t].articles = <<>>
            /\ task[t].synthCalls = 0
            /\ AskEnded(t) =>
                  /\ task[t].resp # None
                  /\ task[t].resp[1].status = "no_results"
                  /\ task[t].resp[1].articles_found = 0

C2_Witness ==
    \E t \in Tasks :
        /\ AskEnded(t)
        /\ task[t].searchDone
        /\ task[t].searchGets > 0
        /\ task[t].pmids = <<>>
        /\ task[t].fetchGets = 0
        /\ task[t].resp # None
        /\ task[t].resp[1].status = "no_results"

(* C3: when search succeeded with n > 0 identifiers and the fetch used up  *)
(* its attempts, ask returns ERROR with error_message set and              *)
(* articles_found = n.                                                     *)
C3_ArticlesFoundAfterFetchFailure ==
    \A t \in Tasks :
        (/\ AskEnded(t)
         /\ task[t].searchDone
         /\ Len(task[t].pmids) > 0
         /\ task[t].endpoint = "efetch"
         /\ task[t].excp = Some("RetryError")) =>
            /\ task[t].resp # None
            /\ task[t].resp[1].status = "error"
            /\ task[t].resp[1].error_message # None
            /\ task[t].resp[1].articles_found = Len(task[t].pmids)

(* C4: a logical request makes at most 3 GETs; an attempt starts only when *)
(* every earlier attempt of the request failed; a successful attempt is    *)
(* the last one; after 3 failed attempts the request raises, and the       *)
(* operation has no result (an ask ends with ERROR, not NO_RESULTS).       *)
C4_BoundedRetry ==
    \A t \in Tasks :
        LET tk == task[t]
            g == ReqGets(tk)
            succeeded == \/ tk.endpoint = "esearch" /\ tk.searchDone
                         \/ tk.endpoint = "efetch" /\ tk.fetchDone
        IN  /\ g <= 3
            /\ tk.pc \in {"acquire", "get", "backoff"} => g = tk.reqFails /\ g < 3
            /\ tk.pc = "inflight" => g = tk.reqFails + 1
            /\ succeeded => g = tk.reqFails + 1 /\ tk.excp # Some("RetryError")
            /\ (tk.endpoint # "none" /\ ~succeeded /\ ~InRequest(tk)) =>
                  /\ tk.reqFails = 3
                  /\ tk.excp = Some("RetryError")
                  /\ tk.articles = <<>>
                  /\ AskEnded(t) => (tk.resp # None /\ tk.resp[1].status = "error")

C4_Witness ==
    \E t \in Tasks :
        /\ task[t].pc = "fetched"
        /\ task[t].fetchDone
        /\ task[t].fetchGets = 3
        /\ task[t].reqFails = 2

(* C5: every GET is preceded by its own token acquisition on the client's  *)
(* limiter: GETs sent never exceed tokens granted, and a task about to     *)
(* send holds a grant not yet used.                                        *)
C5_EveryGetHasToken ==
    \A t \in Tasks :
        /\ Gets(task[t]) <= task[t].grants
        /\ task[t].pc = "get" => Gets(task[t]) < task[t].grants
        /\ task[t].grants <= Gets(task[t]) + 1

C5_Witness ==
    \E t \in Tasks :
        /\ task[t].pc = "inflight"
        /\ task[t].endpoint = "efetch"
        /\ task[t].attempt = 2
        /\ task[t].searchGets = 3
        /\ Gets(task[t]) = 5
        /\ task[t].grants = 5

(* C6: the GETs started in any interval number at most the bucket capacity *)
(* plus the refill rate times the interval's length, however many          *)
(* questions run: a reference bucket of that capacity and rate, drained by *)
(* every GET of every question, never goes below zero.                     *)
C6_SharedBucketBound == sharedBudget >= 0

C8_PipelineOrder ==
    \A t \in Tasks :
        LET tk == task[t]
        IN  /\ (tk.fetchGets > 0 \/ tk.endpoint = "efetch") => tk.searchDone
            /\ tk.pc = "fetched" => tk.searchDone
            /\ tk.synthCalls > 0 => tk.searchDone /\ tk.fetchDone /\ ~InRequest(tk)
            /\ (InRequest(tk) /\ tk.endpoint = "esearch") =>
                  ~tk.searchDone /\ tk.fetchGets = 0
            /\ InRequest(tk) => tk.synthCalls = 0 /\ tk.resp = None
            /\ (tk.resp # None /\ tk.excp = None) =>
                  /\ tk.searchDone
                  /\ tk.resp[1].status = "success" => tk.fetchDone /\ tk.synthCalls = 1

C8_Witness ==
    \E t \in Tasks :
        /\ task[t].pc = "aexit"
        /\ task[t].searchGets = 2
        /\ task[t].fetchGets = 2
        /\ task[t].synthCalls = 1
        /\ task[t].resp # None
        /\ task[t].resp[1].status = "success"

(* C9: when build_query yields the empty string, search returns the empty  *)
(* list without acquiring a token and without sending a request.           *)
C9_EmptyQuerySkipsTransport ==
    \A t \in Tasks :
        (task[t].searchDone /\ BuildQuery(task[t].query) = <<>>) =>
            /\ task[t].pmids = <<>>
            /\ task[t].grants = 0
            /\ Gets(task[t]) = 0
            /\ task[t].tokens = Burst

C9_Witness ==
    \E t \in Tasks :
        /\ task[t].pc = "searched"
        /\ task[t].searchDone
        /\ BuildQuery(task[t].query) = <<>>
        /\ task[t].pmids = <<>>

(* The reference build algorithm of C10 *)
RefParen(str) == <<"(">> \o str \o <<")">>

RECURSIVE RefJoin(_, _)
RefJoin(clauses, sep) ==
    IF Len(clauses) = 0 THEN <<>>
    ELSE IF Len(clauses) = 1 THEN clauses[1]
    ELSE RefJoin(SubSeq(clauses, 1, Len(clauses) - 1), sep)
         \o sep \o clauses[Len(clauses)]

RefTopic(q) ==
    CASE q.pubmed_query # <<>> ->
            <<RefParen(q.pubmed_query)>>
      [] q.pubmed_query = <<>> /\ q.mesh_terms # <<>> ->
            <<RefParen(RefJoin([i \in DOMAIN q.mesh_terms |->
                                   q.mesh_terms[i] \o <<"[MeSH]">>], <<" OR ">>))>>
      [] q.pubmed_query = <<>> /\ q.mesh_terms = <<>> /\ q.search_terms # <<>> ->
            <<RefParen(RefJoin(q.search_terms, <<" AND ">>))>>
      [] OTHER -> <<>>

RefFilters(f) ==
    (IF f.species = <<>> THEN <<>> ELSE <<f.species \o <<"[filter]">>>>)
    \o (IF f.language = <<>> THEN <<>> ELSE <<f.language \o <<"[la]">>>>)
    \o [i \in DOMAIN f.article_types |-> f.article_types[i] \o <<"[pt]">>]

RefBuildQuery(q) == RefJoin(RefTopic(q) \o RefFilters(q.filters), <<" AND ">>)

(* C10: build_query equals the reference build algorithm: one topic clause *)
(* by precedence (pre-formatted query, else MeSH terms, else search        *)
(* terms), then the species, language and article-type clauses in that     *)
(* order, all joined with AND.                                             *)
C10_BuildQueryMatchesReference ==
    bqOut # None => bqOut[1] = RefBuildQuery(bq)

C10_Witness ==
    /\ bqOut # None
    /\ bq.pubmed_query # <<>>
    /\ bq.mesh_terms # <<>>
    /\ bq.search_terms # <<>>
    /\ Len(bq.filters.article_types) = 2
    /\ bq.filters.species # <<>>
    /\ bq.filters.language = <<>>

C12_DateValidation ==
    (arg.fn = "SearchFilters" /\ ret # None) =>
        IF arg.min_date = None \/ arg.max_date = None
        THEN ~ret[1].raised
        ELSE IF arg.min_date[1] <= arg.max_date[1]
        THEN /\ ~ret[1].raised
             /\ ret[1].value.min_date = arg.min_date
             /\ ret[1].value.max_date = arg.max_date
        ELSE ret[1].raised /\ ret[1].exc = "ValidationError"

C12_Witness ==
    /\ arg.fn = "SearchFilters"
    /\ arg.min_date = Some(2)
    /\ arg.max_date = Some(1)
    /\ ret # None
    /\ ret[1].raised

(* The non-empty texts of a sequence of Id texts, in order *)
RECURSIVE RefNonEmptyTexts(_)
RefNonEmptyTexts(ids) ==
    IF ids = <<>> THEN <<>>
    ELSE IF Head(ids) = "" THEN RefNonEmptyTexts(Tail(ids))
    ELSE <<Head(ids)>> \o RefNonEmptyTexts(Tail(ids))

RefSearchResult(p) ==
    IF p.wellformed /\ p.idlist THEN RefNonEmptyTexts(p.ids) ELSE <<>>

RefWellFormedRecord(r) ==
    /\ r.medline
    /\ r.pmid # ""
    /\ r.article
    /\ ~(r.forename = "empty" /\ \E i \in 1..Len(r.authors) : r.authors[i].last_name # "")

RefArticle(r) ==
    [pmid |-> r.pmid, title |-> r.title, article_type |-> ParseArticleType(r),
     authors |-> ParseAuthors(r)]

RefArticles(p) ==
    IF ~p.wellformed THEN <<>>
    ELSE LET kept == SelectSeq(p.records, RefWellFormedRecord)
         IN  [i \in 1..Len(kept) |-> RefArticle(kept[i])]

C15_ArticlesHaveIdAndTitle ==
    (arg.fn = "parse_articles" /\ ret # None /\ ~ret[1].raised) =>
        \A i \in 1..Len(ret[1].value) :
            /\ ret[1].value[i].pmid # ""
            /\ ret[1].value[i].title # <<>>

(* The priority cascade of C16 over the article types of a set of articles *)
RefTypesOf(arts) ==
    {arts[i].article_type[1] : i \in {k \in 1..Len(arts) : arts[k].article_type # None}}

RefCascade(types) ==
    IF types \cap {"Meta-Analysis", "Systematic Review"} # {} THEN "high"
    ELSE IF types \cap {"Randomized Controlled Trial", "Clinical Trial"} # {} THEN "moderate"
    ELSE IF types \cap {"Cohort", "Case-Control", "Case Report", "Case Series", "Review"} # {}
    THEN "low"
    ELSE "unknown"

(* from_article_type places a single article type in the tier the cascade *)
(* places it in                                                            *)
SingleTypeTier ==
    (arg.fn = "from_article_type" /\ ret # None) =>
        ret[1].value = RefCascade(IF arg.article_type = None THEN {}
                                  ELSE {arg.article_type[1]})

AskSucceeded(t) ==
    /\ AskEnded(t)
    /\ task[t].resp # None
    /\ task[t].resp[1].status = "success"

(* C16: the evidence quality grade given to a set of articles is the       *)
(* priority cascade over their article types: HIGH if any is a             *)
(* Meta-Analysis or Systematic Review, else MODERATE if any is a           *)
(* Randomized Controlled Trial or Clinical Trial, else LOW if any is a     *)
(* Cohort, Case-Control, Case Report, Case Series or Review, else UNKNOWN. *)
C16_GradeIsCascade ==
    \A t \in Tasks :
        AskSucceeded(t) =>
            task[t].resp[1].quality = Some(RefCascade(RefTypesOf(task[t].articles)))

(* C17: the grade of a SUCCESS response is a function of the article types *)
(* of the fetched set alone: two runs of ask over the same fetched         *)
(* articles carry the same grade whatever the completions were; a run over *)
(* 3 fetched articles, one of them a Meta-Analysis, that ends in SUCCESS   *)
(* carries the grade HIGH and 3 citations.                                 *)
C17_GradeDeterminedByArticles ==
    /\ \A t, u \in Tasks :
          (/\ AskSucceeded(t)
           /\ AskSucceeded(u)
           /\ task[t].articles = task[u].articles) =>
              task[t].resp[1].quality = task[u].resp[1].quality
    /\ \A t \in Tasks :
          (/\ AskSucceeded(t)
           /\ Len(task[t].articles) = 3
           /\ "Meta-Analysis" \in RefTypesOf(task[t].articles)) =>
              /\ task[t].resp[1].quality = Some("high")
              /\ Len(task[t].resp[1].citations) = 3

(* The author field the claim describes, written out case by case *)
RefAuthorField(art) ==
    CASE Len(art.authors) = 0 -> <<"Unknown">>
      [] Len(art.authors) = 1 /\ art.authors[1].initials = "" ->
             <<art.authors[1].last_name>>
      [] Len(art.authors) = 1 /\ art.authors[1].initials # "" ->
             <<art.authors[1].last_name, " ", art.authors[1].initials>>
      [] Len(art.authors) > 1 /\ art.authors[1].initials = "" ->
             <<art.authors[1].last_name, " et al.">>
      [] OTHER ->
             <<art.authors[1].last_name, " ", art.authors[1].initials, " et al.">>

(* C18: in every SUCCESS response the citation list has exactly one        *)
(* Citation per fetched Article, in the same order, each with that         *)
(* Article's identifier and with the author field equal to the first       *)
(* author's citation name, suffixed with " et al." exactly when the        *)
(* article has more than one author; articles_analyzed is the length of    *)
(* the citation list.                                                      *)
C18_CitationsArePositionWise ==
    \A t \in Tasks : AskSucceeded(t) =>
        LET r == task[t].resp[1]
            arts == task[t].articles
        IN  /\ Len(r.citations) = Len(arts)
            /\ \A i \in 1..Len(arts) :
                  /\ r.citations[i].pmid = arts[i].pmid
                  /\ r.citations[i].authors = RefAuthorField(arts[i])
            /\ r.articles_analyzed = Len(r.citations)

(* A SUCCESS response over two articles, the first with two authors and    *)
(* the second with one *)
C18_Witness ==
    \E t \in Tasks :
        /\ AskSucceeded(t)
        /\ Len(task[t].articles) = 2
        /\ Len(task[t].articles[1].authors) > 1
        /\ Len(task[t].articles[2].authors) = 1
        /\ task[t].resp[1].citations[1].authors = <<"Smith", " ", "J", " et al.">>
        /\ task[t].resp[1].citations[2].authors = <<"Jones">>

(* The first position of an identifier in a list of identifiers *)
RefRank(ids, id) == CHOOSE k \in 1..Len(ids) :
                        /\ ids[k] = id
                        /\ \A j \in 1..(k - 1) : ids[j] # id

(* C19: the identifiers of the final citation list appear in the same      *)
(* relative order as in the identifier list returned by search, for every  *)
(* payload the fetch request may be answered with (records in any order,   *)
(* some identifiers left out).                                             *)
C19_RelevanceOrderPreserved ==
    \A t \in Tasks : AskSucceeded(t) =>
        LET cs == task[t].resp[1].citations
            ids == task[t].pmids
        IN  \A i, j \in 1..Len(cs) :
                i < j => RefRank(ids, cs[i].pmid) < RefRank(ids, cs[j].pmid)

(* The efetch requests the finished call has sent *)
RequestsSent == IF ret = None THEN <<>> ELSE ret[1].requests

(* The fetch tool never asks for more than 20 identifiers *)
FetchToolRequestsLimited ==
    arg.fn = "fetch_evidence" =>
        \A i \in 1..Len(RequestsSent) : Len(RequestsSent[i].id) <= 20

FetchToolLimits ==
    /\ arg.fn = "fetch_evidence"
    /\ Len(arg.pmids) > 20
    /\ Len(RequestsSent) = 1
    /\ Len(RequestsSent[1].id) = 20

(* C20: every fetch request sent to the external API carries at most 20   *)
(* identifiers, on every path that reaches fetch: search_and_fetch with a  *)
(* result cap of up to 50, the direct fetch operation, the fetch tool.     *)
C20_FetchRequestAtMost20 ==
    arg.fn \in {"search_and_fetch", "fetch", "fetch_evidence"} =>
        \A i \in 1..Len(RequestsSent) : Len(RequestsSent[i].id) <= 20

(* text ends with tail *)
RefEndsWith(text, tail) ==
    /\ Len(text) >= Len(tail)
    /\ SubSeq(text, Len(text) - Len(tail) + 1, Len(text)) = tail

(* C21: every AgentResponse returned by ask, whatever its status, carries  *)
(* a non-empty disclaimer, and both to_markdown and to_text of that        *)
(* response end with the disclaimer text.                                  *)
C21_DisclaimerAlways ==
    \A t \in Tasks : (AskEnded(t) /\ task[t].resp # None) =>
        LET r == task[t].resp[1]
        IN  /\ r.disclaimer # <<>>
            /\ RefEndsWith(ToMarkdown(r), r.disclaimer)
            /\ RefEndsWith(ToText(r), r.disclaimer)

(* A question answered with ERROR, rendered with the error text first and  *)
(* the disclaimer last                                                     *)
C21_Witness ==
    \E t \in Tasks :
        /\ AskEnded(t) /\ task[t].resp # None
        /\ task[t].resp[1].status = "error"
        /\ RefEndsWith(ToMarkdown(task[t].resp[1]), MEDICAL_DISCLAIMER)
        /\ RefEndsWith(ToText(task[t].resp[1]), MEDICAL_DISCLAIMER)
        /\ Len(ToText(task[t].resp[1])) > Len(MEDICAL_DISCLAIMER) + 1

(* C22: evidence assembly tolerates every completion of the LLM: for any   *)
(* completion text (no JSON object, braces around invalid JSON, valid JSON *)
(* with missing fields or with an evidence_quality outside high, moderate, *)
(* low, unknown) synthesis does not fail but produces a response, whose    *)
(* summary is the completion's summary when it has one and the raw         *)
(* completion text otherwise.                                              *)
C22_SynthesisToleratesCompletions ==
    [][\A t \in Tasks : \A o \in SynthOutcomes :
          (o.kind # "llm_error" /\ Synthesize(t, o)) =>
              /\ task'[t].excp = None
              /\ task'[t].resp # None
              /\ task'[t].resp[1].answer =
                    IF o.kind = "json" /\ o.summary # None
                    THEN o.summary[1] ELSE o.text]_vars

(* C23: in every AgentResponse that ask returns after a search request was *)
(* sent (SUCCESS, NO_RESULTS, or ERROR after the search), the pubmed_query *)
(* field is the query string that was sent to the search endpoint, the     *)
(* `term` of search.py:37-39.                                              *)
C23_ResponseCarriesSentQuery ==
    \A t \in Tasks :
        (AskEnded(t) /\ task[t].resp # None /\ task[t].searchGets > 0) =>
            task[t].resp[1].pubmed_query = BuildQuery(task[t].query)

(* The callers inside `async with self._lock` *)
InLock(c) == caller[c].pc = "sleeping"

(* What _refill would make of the bucket now *)
RefTokensNow == Min(limiter.burst, limiter.tokens + limiter.elapsed)

(* C24: the token bucket is mutated atomically: for any interleaving of    *)
(* concurrent acquire calls and available_tokens reads on one RateLimiter, *)
(* at most one caller is inside the locked section and the lock is held    *)
(* exactly while one is; no token is granted twice (the tokens granted     *)
(* never exceed what the capacity and the passing of time provide); and    *)
(* 0 <= tokens <= burst in every reachable state.                          *)
C24_BucketMutatedAtomically ==
    /\ \A c, d \in Callers : (InLock(c) /\ InLock(d)) => c = d
    /\ limiter.locked <=> \E c \in Callers : InLock(c)
    /\ limiter.refBucket >= 0
    /\ RefTokensNow = limiter.refBucket
    /\ 0 <= limiter.tokens /\ limiter.tokens <= limiter.burst

(* One caller sleeps inside the lock, a second waits for the lock and a    *)
(* third has been granted its tokens                                       *)
C24_Witness ==
    \E c, d, e \in Callers :
        /\ caller[c].pc = "sleeping"
        /\ caller[d].pc = "lock_wait"
        /\ caller[e].pc = "done" /\ caller[e].got > 0

(* A session that was cancelled and has left the client's block *)
CancelledAndLeft(tk) ==
    /\ tk.excp = Some("CancelledError")
    /\ tk.pc \in {"ask_except", "ended"}

(* C25: if a question's task is cancelled at a suspension point (waiting   *)
(* inside acquire, during an in-flight GET, during a retry backoff), then  *)
(* afterwards the limiter's lock is free of it, no token was deducted for  *)
(* an acquisition that did not complete, tokens stays within [0, burst],   *)
(* the other waiting acquirers can still proceed (while someone waits for  *)
(* the lock, it is held by a live caller or a waiter has been woken), and  *)
(* the client's connection is closed.                                      *)
C25_CancellationIsClean ==
    /\ \A c \in Callers : caller[c].pc = "cancelled" =>
          /\ caller[c].got = 0
          /\ \A i \in 1..Len(limiter.waiters) : limiter.waiters[i] # c
    /\ limiter.locked <=> \E c \in Callers : InLock(c)
    /\ RefTokensNow = limiter.refBucket
    /\ 0 <= limiter.tokens /\ limiter.tokens <= limiter.burst
    /\ limiter.waiters # <<>> =>
          \/ limiter.locked
          \/ \E c \in Callers : caller[c].pc = "woken"
    /\ \A t \in Tasks : task[t].excp = Some("CancelledError") =>
          /\ ~task[t].lockHeld
          /\ 0 <= task[t].tokens /\ task[t].tokens <= Burst
          /\ task[t].pc = "aexit" => task[t].grants = Gets(task[t])
          /\ CancelledAndLeft(task[t]) =>
                (task[t].openConns = 0 /\ ~task[t].hasClient)

(* A caller was cancelled while asleep inside the lock, and the caller     *)
(* that waited for the lock has been woken by that release                 *)
C25_Witness ==
    \E c, d \in Callers :
        /\ caller[c].pc = "cancelled" /\ caller[c].was = "sleeping"
        /\ caller[d].pc = "woken"
        /\ \A e \in Callers : caller[e].pc # "done"

(* The entries of the metrics history that carry the question of task t *)
RefHistoryOf(t) ==
    {i \in 1..Len(metricsHistory) : metricsHistory[i].query = Question(t)}

(* C26: concurrent questions share no per-question state: when two ask     *)
(* calls run interleaved on the same agent, each completed question has    *)
(* exactly one entry in the metrics history, carrying its own question     *)
(* text and its own status.                                                *)
C26_OneHistoryEntryPerQuestion ==
    \A t \in Tasks :
        (task[t].kind = "ask" /\ task[t].pc \in {"ended", "done"}
            /\ task[t].outcome = "returned") =>
            /\ Cardinality(RefHistoryOf(t)) = 1
            /\ \A i \in RefHistoryOf(t) : metricsHistory[i].status = "success"

(* The identifiers an answer refers to, in any of the four written forms *)
RefReferenced(answer) ==
    {answer[i].id : i \in {k \in 1..Len(answer) : answer[k].form # "word"}}

(* The identifiers an answer refers to in a form the check reads: after    *)
(* "PMID:" or "PMID ", or a number of 7 or 8 digits in brackets            *)
RefRecognised(answer) ==
    {answer[i].id : i \in {k \in 1..Len(answer) :
        \/ answer[k].form \in {"PMID: ", "PMID "}
        \/ answer[k].form \in {"[", "("} /\ NumDigits(answer[k].id) >= 7}}

RefCited(citations) == {citations[i] : i \in 1..Len(citations)}

CitationAccuracyReturned == arg.fn = "citation_accuracy" /\ ret # None

(* For a non-empty answer the check fails (score 0) if the text refers, in *)
(* a form the check reads, to at least one identifier that is not the      *)
(* identifier of a Citation in the list, and passes (score 1) otherwise.   *)
RecognisedReferencesFlagged ==
    (CitationAccuracyReturned /\ arg.answer # <<>>) =>
        ret[1].value.score =
            IF \E id \in RefRecognised(arg.answer) : id \notin RefCited(arg.citations)
            THEN 0 ELSE 1

(* C27: for any answer text and citation list, the check fails (score 0)   *)
(* if the text references at least one identifier that is not the          *)
(* identifier of a Citation in the list, and passes (score 1) if every     *)
(* identifier referenced in the text is in the list.                       *)
C27_CheckFlagsFabricatedSources ==
    CitationAccuracyReturned =>
        ret[1].value.score =
            IF \E id \in RefReferenced(arg.answer) : id \notin RefCited(arg.citations)
            THEN 0 ELSE 1

(* An answer with one fetched and one fabricated identifier has score 0 *)
FabricatedReferenceFlagged ==
    /\ CitationAccuracyReturned
    /\ Len(arg.answer) = 2
    /\ arg.answer[1].id = "1234567" /\ arg.answer[2] = [form |-> "PMID: ", id |-> "7654321"]
    /\ arg.citations = <<"1234567">>
    /\ ret[1].value.score = 0

(* The types a record lists: the texts of its PublicationType elements *)
RefListed(r) == SelectSeq(r.pubtypes, LAMBDA x : x # "")

RefListedSet(r) == {RefListed(r)[i] : i \in 1..Len(RefListed(r))}

(* The article type the claim describes *)
RefArticleType(r) ==
    CASE "Meta-Analysis" \in RefListedSet(r) -> Some("Meta-Analysis")
      [] "Systematic Review" \in RefListedSet(r) -> Some("Systematic Review")
      [] "Randomized Controlled Trial" \in RefListedSet(r) ->
             Some("Randomized Controlled Trial")
      [] "Clinical Trial" \in RefListedSet(r) -> Some("Clinical Trial")
      [] "Review" \in RefListedSet(r) -> Some("Review")
      [] "Guideline" \in RefListedSet(r) -> Some("Guideline")
      [] "Practice Guideline" \in RefListedSet(r) -> Some("Practice Guideline")
      [] RefListed(r) # <<>> -> Some(Head(RefListed(r)))
      [] OTHER -> None

(* C28: the article type of a parsed record is chosen by the fixed         *)
(* priority order Meta-Analysis > Systematic Review > Randomized           *)
(* Controlled Trial > Clinical Trial > Review > Guideline > Practice       *)
(* Guideline, not by document order: it is the highest-priority type the   *)
(* record lists; if it lists none of them, the first listed type verbatim; *)
(* if it lists no type, null.                                              *)
C28_ArticleTypeByPriority ==
    (arg.fn = "_parse_article_type" /\ ret # None) =>
        ret[1] = Returned(RefArticleType(arg.medline))

(* A record listing Review before Meta-Analysis resolves to Meta-Analysis *)
C28_Witness ==
    /\ arg.fn = "_parse_article_type"
    /\ arg.medline.pubtypes = <<"Review", "Meta-Analysis">>
    /\ ret = Some(Returned(Some("Meta-Analysis")))

(* The time-to-live the latest set of a key asked for *)
RefTtlAsked(e) == IF e.ttl = None THEN DefaultTtl ELSE e.ttl[1]

(* The time-to-live of an entry set with ttl 0 taken to be the default *)
RefTtlGiven(e) == IF e.ttl = None \/ e.ttl = Some(0) THEN DefaultTtl ELSE e.ttl[1]

(* C29: for any interleaving of get, set, delete and clear issued by       *)
(* concurrent questions, get(k) returns either nothing or the value of the *)
(* most recent set(k) that has not since been deleted or cleared; a value  *)
(* is never returned after its time-to-live has elapsed; and after any     *)
(* set(k) a get(k) returns the new value.                                  *)
C29_CacheReturnsLiveValues ==
    [][/\ \A k \in CacheKeys : CacheGet(k) =>
             (cache'.got[1].result # None =>
                 /\ cache.entry[k] # None
                 /\ cache'.got[1].result = Some(cache.entry[k][1].value)
                 /\ cache.now <= cache.entry[k][1].set_at + RefTtlAsked(cache.entry[k][1]))
       /\ \A k \in CacheKeys : \A v \in CacheValues : \A ttl \in TtlArgs :
             CacheSet(k, v, ttl) =>
                 /\ cache'.store[k] # None
                 /\ cache'.store[k][1].value = v
                 /\ ~Expired(cache', cache'.store[k][1])]_vars

(* The same with the time-to-live of set(k, v, ttl=0) taken to be the      *)
(* default time-to-live                                                    *)
CacheReturnsWithinGivenTtl ==
    [][\A k \in CacheKeys : CacheGet(k) =>
          (cache'.got[1].result # None =>
              /\ cache.entry[k] # None
              /\ cache'.got[1].result = Some(cache.entry[k][1].value)
              /\ cache.now <= cache.entry[k][1].set_at + RefTtlGiven(cache.entry[k][1]))]_vars

(* The callers served before caller c: the one inside the lock and those   *)
(* that wait for the lock in front of c                                    *)
RefAhead(c) ==
    {d \in Callers : InLock(d)}
    \cup {limiter.waiters[i] : i \in {k \in 1..Len(limiter.waiters) :
            \E m \in (k + 1)..Len(limiter.waiters) : limiter.waiters[m] = c}}

RefCalling(c) == caller[c].pc \in {"lock_wait", "woken", "sleeping"}

(* C30: under fair progress of time, with the callers served one at a time *)
(* in arrival order, acquire(n) eventually returns if and only if          *)
(* n <= burst: a call returns only if n <= burst; a call with n <= burst   *)
(* that is not behind a call for more than burst returns eventually; and a *)
(* call for more than burst (any call on a limiter of capacity 0) stays    *)
(* inside the lock forever, so that no later caller is served.             *)
C30_AcquireReturnsIffWithinBurst ==
    /\ [](\A c \in Callers : caller[c].pc = "done" => caller[c].n <= limiter.burst)
    /\ [][\A c \in Callers :
            (InLock(c) /\ caller[c].n > limiter.burst) =>
                /\ InLock(c)'
                /\ \A d \in Callers : caller'[d].pc = "done" => caller[d].pc = "done"]_vars
    /\ \A c \in Callers :
          (/\ RefCalling(c)
           /\ \A d \in RefAhead(c) \cup {c} : caller[d].n <= limiter.burst)
             ~> (caller[c].pc = "done")

(* A call for more than burst sleeps inside the lock while a call that     *)
(* burst could serve waits for the lock                                    *)
C30_Witness ==
    \E c, d \in Callers :
        /\ InLock(c) /\ caller[c].n > limiter.burst
        /\ caller[d].pc = "lock_wait" /\ caller[d].n <= limiter.burst

====
